---- MODULE Spec2Model ----
(***************************************************************************)
(* Orchestration engine of ai-agent-viz: the TaskScheduler (priority and   *)
(* dependency queue, running set, retry timers), the MasterAgent task and  *)
(* worker store it writes to, and the ExceptionHandler pause/resume path.  *)
(*                                                                         *)
(* One action is one callback of the Node event loop run to completion:    *)
(* a route handler, a timer, or the continuation of an awaited execution.  *)
(* submitTask only awaits promises that are already settled, so its whole  *)
(* loop and the processQueue call that ends it run in one turn.            *)
(***************************************************************************)
EXTENDS Integers, Sequences, FiniteSets, TLC

VARIABLES
  deps,            \* SubTask.dependencies of every sub-task (fixed by the plan)
  team,            \* MasterAgent.subAgents: the workers createSubAgentTeam made
  subStatus,       \* SubTask.status
  subAssigned,     \* SubTask.assignedAgentId
  subResult,       \* SubTask.result
  taskStatus,      \* TaskResult.status
  taskProgress,    \* TaskResult.progress
  agentStatus,     \* SubAgentInfo.status
  agentCurrent,    \* SubAgentInfo.currentTaskId
  agentCompleted,  \* SubAgentInfo.completedTasks
  taskQueue,       \* TaskScheduler.taskQueue
  runningTasks,    \* TaskScheduler.runningTasks, in Map insertion order
  taskRetryCount,  \* TaskScheduler.taskRetryCount (0 = no entry)
  execs,           \* executeTask calls awaiting Promise.race
  retryTimers,     \* setTimeout callbacks armed by handleTaskError
  pollTimers,      \* setTimeout callbacks armed by processQueue
  pausedTasks,     \* ExceptionHandler.pausedTasks (its keys)
  exceptions,      \* ExceptionHandler.exceptions (its values, in insertion order)
  retryCounts,     \* ExceptionHandler.retryCounts (0 = no entry)
  config,          \* ExceptionHandler.config
  ehTimers,        \* delays that handleAutoRetry awaits
  statusTrail,     \* history: status changes of records in the last callback
  executeStates,   \* TaskExecutor.executeStates: key -> its ExecuteState object
  execGen,         \* ExecuteState objects created so far for each key
  calls,           \* TaskExecutor.executeTask calls in flight
  execDone,        \* history: executeTask calls settled in the last callback
  sessions,        \* CollaborationManager.sessions, a session's id is its index
  messages,        \* CollaborationManager.messages, a message's id is its index
  records,         \* CollaborationManager.records
  agentConversations, \* CollaborationManager.agentConversations, in Set insertion order
  deliveries,      \* sendMessage calls awaiting deliverMessageToAgent
  replyTimers,     \* setTimeout callbacks armed by deliverMessageToAgent
  purgeTimers,     \* setTimeout callbacks armed by closeSession
  aggregatedResults, \* ResultAggregator.aggregatedResults (its values, one per taskId)
  aggregations,    \* aggregateResults calls awaiting generateSummary
  overwritten,     \* history: cached results the last callback replaced
  clock,           \* Date.now(), in milliseconds
  started,         \* task_started events emitted by the last callback
  dispatched,      \* history: queue entries processQueue started in the last callback
  enqueued,        \* history: queue entries inserted by the last callback
  invoked,         \* history: agentManager.sendMessage calls for a sub-task in the last callback
  emitted,         \* task_completed / task_failed events emitted by the last callback
  timedOut,        \* history: the running entry whose watchdog fired in the last callback
  cancelled,       \* history: tasks cancelled and not submitted since
  pauseRequeued,   \* history: entries re-queued by pauseTask, not yet started
  budget           \* remaining submissions, injected failures and pause/cancel calls

vars == <<deps, team, subStatus, subAssigned, subResult, taskStatus, taskProgress,
          agentStatus, agentCurrent, agentCompleted, taskQueue, runningTasks,
          taskRetryCount, execs, retryTimers, pollTimers, pausedTasks,
          exceptions, retryCounts, config, ehTimers, statusTrail,
          executeStates, execGen, calls, execDone,
          sessions, messages, records, agentConversations, deliveries,
          replyTimers, purgeTimers,
          aggregatedResults, aggregations, overwritten, clock,
          started, dispatched, enqueued, invoked, emitted, timedOut, cancelled, pauseRequeued, budget>>

(***************************************************************************)
(* Bounds of the model and configuration of the run.                       *)
(***************************************************************************)
maxConcurrency == 2
retryAttempts == 1
defaultPriority == 5
MaxSubmits == 2
MaxFailures == 2
MaxControls == 1
MaxPollTimers == 1
MaxClock == 1200
BusyMaxSends == 2
ExecMaxChunks == 1
maxRetries == 1

None == "none"
Undefined == "undefined"

\* ExceptionHandler DEFAULT_CONFIG (the fields the handlers read).
DefaultConfig ==
  [autoRetryEnabled |-> TRUE, maxAutoRetries |-> 2, humanInterventionThreshold |-> "high",
   autoEscalationEnabled |-> TRUE, pauseOnCritical |-> TRUE]

Tasks == {"T1", "T2"}
Agents == {"A1", "A2", "A3"}
AgentSeq == <<"A1", "A2", "A3">>

\* TaskAnalysis.subtasks of each task, in array order.
subtasks(t) == IF t = "T1" THEN <<"s1", "s2">> ELSE <<"s1">>
Keys == {<<"T1", "s1">>, <<"T1", "s2">>, <<"T2", "s1">>}
KeysOf(t) == {k \in Keys : k[1] = t}
\* Keys of ExceptionHandler.retryCounts: a record may carry no subTaskId.
EHPairs == Keys \cup {<<t, None>> : t \in Tasks}

\* SubTask.priority of each sub-task.
subPriority(k) ==
  IF k = <<"T1", "s1">> THEN "medium"
  ELSE IF k = <<"T1", "s2">> THEN "high" ELSE "low"

\* SubTask.requiredSkills and SubAgentInfo.skills / role.
requiredSkills(k) ==
  IF k = <<"T1", "s1">> THEN {"coding"}
  ELSE IF k = <<"T1", "s2">> THEN {} ELSE {"docs"}
agentSkills(a) == IF a = "A2" THEN {"coding"} ELSE {}
\* role.toLowerCase().includes(skill.toLowerCase())
roleIncludes(a, skill) == a = "A3" /\ skill = "analysis"

Min(a, b) == IF a < b THEN a ELSE b

\* The mutable program state as one record, so that a handler can be written
\* as the composition of the calls it makes.
Cur ==
  [subStatus |-> subStatus, subAssigned |-> subAssigned, subResult |-> subResult,
   taskStatus |-> taskStatus, taskProgress |-> taskProgress,
   agentStatus |-> agentStatus, agentCurrent |-> agentCurrent,
   agentCompleted |-> agentCompleted, taskQueue |-> taskQueue,
   runningTasks |-> runningTasks, taskRetryCount |-> taskRetryCount,
   execs |-> execs, retryTimers |-> retryTimers, pollTimers |-> pollTimers,
   started |-> {}, dispatched |-> <<>>, enqueued |-> <<>>, invoked |-> <<>>,
   emitted |-> {}, timedOut |-> {}, pauseRequeued |-> pauseRequeued,
   pausedTasks |-> pausedTasks, exceptions |-> exceptions, retryCounts |-> retryCounts,
   ehTimers |-> ehTimers, statusTrail |-> <<>>,
   executeStates |-> executeStates, execGen |-> execGen, calls |-> calls,
   execDone |-> {},
   sessions |-> sessions, messages |-> messages, records |-> records,
   agentConversations |-> agentConversations, deliveries |-> deliveries,
   replyTimers |-> replyTimers, purgeTimers |-> purgeTimers,
   aggregatedResults |-> aggregatedResults, aggregations |-> aggregations,
   overwritten |-> {}, clock |-> clock]

Becomes(S) ==
  /\ subStatus' = S.subStatus
  /\ subAssigned' = S.subAssigned
  /\ subResult' = S.subResult
  /\ taskStatus' = S.taskStatus
  /\ taskProgress' = S.taskProgress
  /\ agentStatus' = S.agentStatus
  /\ agentCurrent' = S.agentCurrent
  /\ agentCompleted' = S.agentCompleted
  /\ taskQueue' = S.taskQueue
  /\ runningTasks' = S.runningTasks
  /\ taskRetryCount' = S.taskRetryCount
  /\ execs' = S.execs
  /\ retryTimers' = S.retryTimers
  /\ pollTimers' = S.pollTimers
  /\ started' = S.started
  /\ dispatched' = S.dispatched
  /\ enqueued' = S.enqueued
  /\ invoked' = S.invoked
  /\ emitted' = S.emitted
  /\ timedOut' = S.timedOut
  /\ pauseRequeued' = S.pauseRequeued
  /\ pausedTasks' = S.pausedTasks
  /\ exceptions' = S.exceptions
  /\ retryCounts' = S.retryCounts
  /\ ehTimers' = S.ehTimers
  /\ statusTrail' = S.statusTrail
  /\ executeStates' = S.executeStates
  /\ execGen' = S.execGen
  /\ calls' = S.calls
  /\ execDone' = S.execDone
  /\ sessions' = S.sessions
  /\ messages' = S.messages
  /\ records' = S.records
  /\ agentConversations' = S.agentConversations
  /\ deliveries' = S.deliveries
  /\ replyTimers' = S.replyTimers
  /\ purgeTimers' = S.purgeTimers
  /\ aggregatedResults' = S.aggregatedResults
  /\ aggregations' = S.aggregations
  /\ overwritten' = S.overwritten
  /\ clock' = S.clock
  /\ deps' = deps
  /\ team' = team
  /\ config' = config

(***************************************************************************)
(* MasterAgent: task and worker bookkeeping.                               *)
(***************************************************************************)
\* Math.round((completed / total) * 100)
RoundPercent(c, total) == (200 * c + total) \div (2 * total)

updateTaskProgress(S, t) ==
  LET completed == Cardinality({k \in KeysOf(t) : S.subStatus[k] = "completed"})
      failed == Cardinality({k \in KeysOf(t) : S.subStatus[k] = "failed"})
      total == Len(subtasks(t))
  IN [S EXCEPT
        !.taskProgress[t] = RoundPercent(completed, total),
        !.taskStatus[t] =
          IF completed + failed = total
          THEN (IF failed > 0 THEN "failed" ELSE "completed")
          ELSE @]

updateSubtaskResult(S, t, s, result, success) ==
  IF t \notin Tasks THEN S
  ELSE IF <<t, s>> \notin Keys THEN updateTaskProgress(S, t)
  ELSE
    LET k == <<t, s>>
        a == S.subAssigned[k]
        S1 == [S EXCEPT !.subResult[k] = result,
                        !.subStatus[k] = IF success THEN "completed" ELSE "failed"]
        S2 == IF a \in Agents
              THEN [S1 EXCEPT
                      !.agentStatus[a] = IF success THEN "success" ELSE "error",
                      !.agentCurrent[a] = None,
                      !.agentCompleted[a] = IF success THEN @ + 1 ELSE @]
              ELSE S1
    IN updateTaskProgress(S2, t)

assignTask(S, t, a, s) ==
  IF t \notin Tasks \/ a \notin team THEN S
  ELSE
    LET k == <<t, s>>
        S1 == IF k \in Keys
              THEN [S EXCEPT !.subAssigned[k] = a, !.subStatus[k] = "running"]
              ELSE S
    IN [S1 EXCEPT
          !.agentStatus[a] = "thinking",
          !.agentCurrent[a] = s,
          !.taskStatus[t] = IF @ = "pending" THEN "running" ELSE @]

(***************************************************************************)
(* CollaborationManager.  A session record keeps live (still in the        *)
(* sessions map) and two history fields: bySend (created by sendMessage)   *)
(* and closedLen (number of messages it held when closeSession first ran,  *)
(* -1 before).  parentMessageId 0 stands for undefined.  A message record  *)
(* keeps three history fields: replyOf (the message whose automatic reply  *)
(* or replyMessage call sent it, 0 if none), auto telling the two apart,   *)
(* and delivered (what became of its delivery).                            *)
(***************************************************************************)
createSession(S, taskId, participantIds, bySend) ==
  LET sessionId == Len(S.sessions) + 1
      session == [taskId |-> taskId, participantIds |-> participantIds,
                  messages |-> <<>>, status |-> "active", live |-> TRUE,
                  bySend |-> bySend, closedLen |-> -1]
  IN [S EXCEPT
        !.sessions = Append(@, session),
        !.agentConversations =
          [a \in Agents |-> IF a \in participantIds THEN Append(@[a], sessionId) ELSE @[a]]]

\* session && session.status === 'active' && (!taskId || session.taskId === taskId)
sessionMatches_AnyTask(session, taskId) ==
  session.live /\ session.status = "active"

sessionMatches(session, taskId) ==
  /\ session.live
  /\ session.status = "active"
  /\ (taskId = None \/ session.taskId = taskId)

InSeq(x, seq) == \E i \in 1..Len(seq) : seq[i] = x

\* The shared sessions of the two workers that findOrCreateSession accepts,
\* in the order it meets them.
sharedSessions(S, agentId1, agentId2, taskId) ==
  SelectSeq(S.agentConversations[agentId1],
            LAMBDA sessionId : /\ InSeq(sessionId, S.agentConversations[agentId2])
                               /\ sessionMatches(S.sessions[sessionId], taskId))

\* findOrCreateSession: the store after it, its result is foundSession.
findOrCreateSession(S, agentId1, agentId2, taskId) ==
  IF Len(sharedSessions(S, agentId1, agentId2, taskId)) > 0 THEN S
  ELSE createSession(S, IF taskId = None THEN "general" ELSE taskId,
                     {agentId1, agentId2}, TRUE)

foundSession(S, agentId1, agentId2, taskId) ==
  LET shared == sharedSessions(S, agentId1, agentId2, taskId)
  IN IF Len(shared) > 0 THEN shared[1] ELSE Len(S.sessions) + 1

\* sendMessage up to the await in deliverMessageToAgent.
sendMessage(S, fromAgentId, toAgentId, type, taskId, requireResponse, replyOf, auto) ==
  IF fromAgentId \notin team \/ toAgentId \notin team THEN S  \* throws
  ELSE
    LET id == Len(S.messages) + 1
        message == [type |-> type, fromAgentId |-> fromAgentId, toAgentId |-> toAgentId,
                    taskId |-> taskId, requiresResponse |-> requireResponse,
                    parentMessageId |-> 0,  \* never set: undefined
                    replyOf |-> replyOf, auto |-> auto, delivered |-> "pending"]
        sessionId == foundSession(S, fromAgentId, toAgentId, taskId)
        S1 == findOrCreateSession(S, fromAgentId, toAgentId, taskId)
    IN [S1 EXCEPT
          !.messages = Append(@, message),
          !.sessions[sessionId].messages = Append(@, id),
          !.agentStatus[fromAgentId] = "typing",
          !.deliveries = @ \cup {id}]

\* message.metadata?.requiresResponse && response
shouldAutoReply_Always(message, response) == response # ""

shouldAutoReply(message, response) == message.requiresResponse /\ response # ""

\* The addressee's stream has ended with response: the rest of
\* deliverMessageToAgent and of sendMessage.
deliveryDone(S, id, response) ==
  LET message == S.messages[id]
  IN [S EXCEPT
        !.deliveries = @ \ {id},
        !.messages[id].delivered = IF response = "" THEN "nothing" ELSE "output",
        !.replyTimers = IF shouldAutoReply(message, response) THEN @ \cup {id} ELSE @,
        !.agentStatus[message.fromAgentId] = "idle"]

\* agentManager.sendMessage gave no stream: deliverMessageToAgent throws.
deliveryFailed(S, id) ==
  [S EXCEPT
     !.deliveries = @ \ {id},
     !.messages[id].delivered = "nothing",
     !.agentStatus[S.messages[id].fromAgentId] = "idle"]

\* The timer of deliverMessageToAgent: the automatic reply.
autoReply(S, id) ==
  LET message == S.messages[id]
  IN sendMessage([S EXCEPT !.replyTimers = @ \ {id}],
                 message.toAgentId, message.fromAgentId, "answer", message.taskId,
                 FALSE, id, TRUE)

replyMessage(S, originalMessageId, type) ==
  IF originalMessageId \notin 1..Len(S.messages) THEN S  \* throws
  ELSE LET original == S.messages[originalMessageId]
       IN sendMessage(S, original.toAgentId, original.fromAgentId, type, original.taskId,
                      FALSE, originalMessageId, FALSE)

\* Map.set(session.id, record)
saveConversationRecord(S, sessionId) ==
  [S EXCEPT !.records = {r \in @ : r.sessionId # sessionId}
                        \cup {[sessionId |-> sessionId,
                                taskId |-> S.sessions[sessionId].taskId,
                                messages |-> S.sessions[sessionId].messages]}]

removeFromIndex_Keeps(S, sessionId) == S

removeFromIndex(S, sessionId) ==
  [S EXCEPT !.agentConversations =
     [a \in Agents |->
        IF a \in S.sessions[sessionId].participantIds
        THEN SelectSeq(@[a], LAMBDA x : x # sessionId) ELSE @[a]]]

closeSession(S, sessionId, saveRecord) ==
  IF sessionId \notin 1..Len(S.sessions) \/ ~S.sessions[sessionId].live THEN S
  ELSE
    LET S1 == [S EXCEPT !.sessions[sessionId].status = "closed",
                        !.sessions[sessionId].closedLen =
                           IF @ = -1 THEN Len(S.sessions[sessionId].messages) ELSE @]
        S2 == IF saveRecord THEN saveConversationRecord(S1, sessionId) ELSE S1
        S3 == removeFromIndex(S2, sessionId)
    IN [S3 EXCEPT !.purgeTimers = @ \cup {sessionId}]

\* The timer of closeSession: this.sessions.delete(sessionId).
purgeSession(S, sessionId) ==
  [S EXCEPT !.purgeTimers = @ \ {sessionId}, !.sessions[sessionId].live = FALSE]

hasReply(S, id) ==
  \E i \in 1..Len(S.messages) : S.messages[i].parentMessageId = id

getPendingResponses(S, agentId) ==
  {id \in 1..Len(S.messages) :
     /\ S.messages[id].toAgentId = agentId
     /\ S.messages[id].requiresResponse
     /\ ~hasReply(S, id)}

\* pendingResponses of getCollaborationOverview
pendingResponses(S) ==
  Cardinality({id \in 1..Len(S.messages) :
                 S.messages[id].requiresResponse /\ ~hasReply(S, id)})

(***************************************************************************)
(* ResultAggregator: what aggregateResults reads from the task store.      *)
(***************************************************************************)
collectSubTaskResults(S, t) ==
  [i \in 1..Len(subtasks(t)) |->
     LET k == <<t, subtasks(t)[i]>>
     IN [subTaskId |-> k[2], status |-> S.subStatus[k],
         assignedAgentId |-> S.subAssigned[k],
         agentName |-> IF S.subAssigned[k] \in team THEN S.subAssigned[k] ELSE None,
         result |-> S.subResult[k]]]

CountStatus(subTaskResults, status) ==
  Cardinality({i \in 1..Len(subTaskResults) : subTaskResults[i].status = status})

calculateMetrics(subTaskResults) ==
  LET totalSubTasks == Len(subTaskResults)
      completedSubTasks == CountStatus(subTaskResults, "completed")
      failedSubTasks == CountStatus(subTaskResults, "failed")
  IN [totalSubTasks |-> totalSubTasks,
      completedSubTasks |-> completedSubTasks,
      failedSubTasks |-> failedSubTasks,
      successRate |-> IF totalSubTasks > 0
                      THEN RoundPercent(completedSubTasks, totalSubTasks) ELSE 0]

determineOverallStatus(subTaskResults) ==
  LET completed == CountStatus(subTaskResults, "completed")
      failed == CountStatus(subTaskResults, "failed")
      total == Len(subTaskResults)
  IN IF completed = total THEN "completed"
     ELSE IF failed = total THEN "failed" ELSE "partial"

\* generateSummary after its await: the text the model wrote, trimmed, or the
\* sentence built in the catch block when adapter.chat rejects.
generateSummary(outcome, metrics) ==
  IF outcome = "error"
  THEN <<IF metrics.successRate >= 80 THEN "done" ELSE "partly done",
         metrics.completedSubTasks, metrics.totalSubTasks>>
  ELSE <<outcome>>

getStatusLabel(successRate) ==
  IF successRate = 100 THEN "all completed"
  ELSE IF successRate >= 80 THEN "mostly completed"
  ELSE IF successRate >= 50 THEN "partly completed" ELSE "failed"

\* new Date().toLocaleString(): date and time of day to the second.
toLocaleString_Millis(now) == now
toLocaleString(now) == now \div 1000

\* The report as the list of its sections (DEFAULT_CONFIG includes metrics
\* and agent details).
generateDetailedReport(subTaskResults, originalTask, metrics, summary, now) ==
  [originalTask |-> originalTask,
   generated |-> toLocaleString(now),
   status |-> getStatusLabel(metrics.successRate),
   summary |-> summary,
   metrics |-> metrics,
   results |-> [i \in 1..Len(subTaskResults) |->
                  [heading |-> <<IF subTaskResults[i].status = "completed" THEN "check"
                                 ELSE IF subTaskResults[i].status = "failed"
                                      THEN "cross" ELSE "hourglass",
                                 subTaskResults[i].subTaskId>>,
                   agentName |-> subTaskResults[i].agentName,
                   result |-> subTaskResults[i].result]],
   conclusion |-> IF metrics.successRate = 100 THEN "all sub-tasks completed"
                  ELSE IF metrics.successRate >= 80 THEN "most sub-tasks completed"
                  ELSE IF metrics.successRate >= 50 THEN "task partly completed"
                  ELSE "many problems"]

\* The converted report wrapped in the page's head, style and body.
convertMarkdownToHTML(markdown) ==
  [doctype |-> "html", title |-> "report", body |-> markdown]

generateExportFormats(result) ==
  [markdown |-> result.report,
   html |-> convertMarkdownToHTML(result.report),
   json |-> [taskId |-> result.taskId,
             originalTask |-> result.originalTask,
             status |-> result.status,
             completedAt |-> result.completedAt,
             summary |-> result.summary,
             metrics |-> result.metrics,
             subTaskResults |->
               [i \in 1..Len(result.subTaskResults) |->
                  [title |-> result.subTaskResults[i].subTaskId,
                   status |-> result.subTaskResults[i].status,
                   agentName |-> result.subTaskResults[i].agentName,
                   result |-> result.subTaskResults[i].result]]]]

\* aggregateResults up to the await of adapter.chat: a task that is not in
\* the store makes the call throw.
aggregateStart(S, t, call) ==
  IF t \notin Tasks THEN S
  ELSE LET subTaskResults == collectSubTaskResults(S, t)
       IN [S EXCEPT !.aggregations = @ \cup
             {[call |-> call, taskId |-> t, originalTask |-> <<"task", t>>,
               subTaskResults |-> subTaskResults,
               metrics |-> calculateMetrics(subTaskResults),
               status |-> determineOverallStatus(subTaskResults)]}]

\* aggregateResults from the await of adapter.chat on.
aggregateFinish(S, c, outcome) ==
  LET summary == generateSummary(outcome, c.metrics)
      report == generateDetailedReport(c.subTaskResults, c.originalTask,
                                       c.metrics, summary, S.clock)
      partial == [taskId |-> c.taskId, originalTask |-> c.originalTask,
                  status |-> c.status, completedAt |-> S.clock,
                  summary |-> summary, report |-> report,
                  subTaskResults |-> c.subTaskResults, metrics |-> c.metrics]
      aggregatedResult ==
        [taskId |-> c.taskId, originalTask |-> c.originalTask,
         status |-> c.status, completedAt |-> S.clock,
         summary |-> summary, report |-> report,
         subTaskResults |-> c.subTaskResults, metrics |-> c.metrics,
         exportData |-> generateExportFormats(partial)]
      old == {r \in S.aggregatedResults : r.taskId = c.taskId}
  IN [S EXCEPT !.aggregations = @ \ {c},
               !.aggregatedResults = (@ \ old) \cup {aggregatedResult},
               !.overwritten = @ \cup old]

(***************************************************************************)
(* TaskExecutor.  An ExecuteState object is a record; gen tells the        *)
(* objects created for one key apart.  A call in flight whose object is    *)
(* still the one in executeStates reads and writes it there; a call whose  *)
(* object has been replaced in the map carries the object itself.          *)
(* attempts, retries and failed count what this object's runWithRetry did: *)
(* calls of runSubtaskWithStream, task_retry and task_failed events.       *)
(***************************************************************************)
NoState ==
  [gen |-> 0, agentId |-> None, status |-> "none", retryCount |-> 0, error |-> None,
   attempts |-> 0, retries |-> 0, failed |-> 0, errors |-> <<>>, events |-> <<>>]

\* The object a call works on.
objOf(S, c) ==
  IF S.executeStates[c.key].gen = c.obj.gen THEN S.executeStates[c.key] ELSE c.obj

\* Write o back to where the call's object lives.
withObj(S, c, o) ==
  IF S.executeStates[c.key].gen = c.obj.gen
  THEN [S EXCEPT !.executeStates[c.key] = o]
  ELSE S

\* runWithRetry from the top of the loop to the await in runSubtaskWithStream:
\* status running, task_start, then status streaming.
startAttempt(o) ==
  [o EXCEPT !.status = "streaming", !.error = None, !.attempts = @ + 1,
            !.events = Append(@, "task_start")]

\* TaskExecutor.executeTask up to its first await.
executorExecuteTask(S, t, s, a) ==
  IF <<t, s>> \notin Keys THEN S
  ELSE
    LET k == <<t, s>>
        existing == S.executeStates[k]
    IN IF existing.status \in {"running", "streaming"}
       THEN S  \* throws 'already running'; the listener's catch logs it
       ELSE
         LET gen == S.execGen[k] + 1
             o == startAttempt([NoState EXCEPT !.gen = gen, !.agentId = a,
                                                !.status = "pending"])
             \* calls on the replaced object keep their own copy of it
             kept == {IF c.key = k /\ c.obj.gen = existing.gen
                      THEN [c EXCEPT !.obj = existing] ELSE c : c \in S.calls}
         IN [S EXCEPT !.executeStates[k] = o,
                      !.execGen[k] = gen,
                      !.invoked = Append(@, [by |-> "TaskExecutor", taskId |-> t,
                                             subTaskId |-> s, agentId |-> a]),
                      !.calls = kept \cup {[key |-> k, phase |-> "attempt",
                                            obj |-> [NoState EXCEPT !.gen = gen]]}]

\* The call goes on to its next await, working on object o.
advance(S, c, o, phase) ==
  LET mapped == S.executeStates[c.key].gen = c.obj.gen
      c1 == [c EXCEPT !.phase = phase, !.obj = IF mapped THEN @ ELSE o]
  IN [withObj(S, c, o) EXCEPT !.calls = (@ \ {c}) \cup {c1}]

\* The promise executeTask returned settles.
finish(S, c, o, outcome, message) ==
  [withObj(S, c, o) EXCEPT
     !.calls = @ \ {c},
     !.execDone = @ \cup {[key |-> c.key, outcome |-> outcome, message |-> message,
                           obj |-> o]}]

\* state.retryCount <= this.config.maxRetries, in the catch of runWithRetry
retriesLeft_OffByOne(o) == o.retryCount < maxRetries

retriesLeft(o) == o.retryCount <= maxRetries

\* One chunk of the stream in runSubtaskWithStream: task_progress when the
\* update interval has passed (due), then task_stream.
streamChunk(S, c, due) ==
  LET o == [objOf(S, c) EXCEPT
              !.events = @ \o (IF due THEN <<"task_progress">> ELSE <<>>)
                           \o <<"task_stream">>]
  IN advance(S, c, o, "attempt")

\* runSubtaskWithStream resolved: the final task_progress, then the rest of
\* the try block of runWithRetry.
attemptResolved(S, c) ==
  LET o == [objOf(S, c) EXCEPT !.status = "completed",
                               !.events = @ \o <<"task_progress", "task_complete">>]
  IN finish(S, c, o, "resolved", "output")

\* runSubtaskWithStream rejected with error: the catch block.
attemptRejected(S, c, error) ==
  LET o1 == [objOf(S, c) EXCEPT !.retryCount = @ + 1, !.error = error,
                                !.errors = Append(@, error)]
  IN IF retriesLeft(o1)
     THEN advance(S, c, [o1 EXCEPT !.status = "retrying", !.retries = @ + 1,
                                   !.events = Append(@, "task_retry")], "delay")
     ELSE finish(S, c, [o1 EXCEPT !.status = "failed", !.failed = @ + 1,
                                  !.events = Append(@, "task_failed")], "rejected",
                 [after |-> maxRetries, error |-> o1.error])

\* The retry delay is over: back to the loop condition of runWithRetry.
delayOver(S, c) ==
  LET o == objOf(S, c)
  IN IF o.retryCount <= maxRetries
     THEN advance([S EXCEPT !.invoked = Append(@, [by |-> "TaskExecutor",
                                                   taskId |-> c.key[1],
                                                   subTaskId |-> c.key[2],
                                                   agentId |-> o.agentId])],
                  c, startAttempt(o), "attempt")
     ELSE finish(S, c, o, "rejected", "Unexpected execution path")

\* TaskExecutor.abortTask(taskId): the objects of the task in executeStates.
abortTask(S, t) ==
  [S EXCEPT !.executeStates =
     [k \in Keys |->
        IF k[1] = t /\ @[k].status \in {"running", "streaming", "pending"}
        THEN [@[k] EXCEPT !.status = "failed", !.error = "Aborted by user",
                          !.events = Append(@, "task_failed")]
        ELSE @[k]]]

\* handleSchedulerEvent: task_started starts an execution of its own.
handleSchedulerEvent(S, type, t, s, a) ==
  IF type = "task_started" /\ a # None /\ s # None
  THEN executorExecuteTask(S, t, s, a)
  ELSE S

(***************************************************************************)
(* TaskScheduler: queue management.                                        *)
(***************************************************************************)
\* if (subtask.dependencies.length > 0) priority += 1
calculatePriority_UnmetOnly(k) ==
  defaultPriority
  + (CASE subPriority(k) = "high" -> -2
       [] subPriority(k) = "low" -> 2
       [] OTHER -> 0)
  + (IF \E d \in deps[k] : subStatus[<<k[1], d>>] # "completed" THEN 1 ELSE 0)

calculatePriority(k) ==
  defaultPriority
  + (CASE subPriority(k) = "high" -> -2
       [] subPriority(k) = "low" -> 2
       [] OTHER -> 0)
  + (IF deps[k] # {} THEN 1 ELSE 0)

\* findIndex(q => q.priority > item.priority), then splice or push.
insertByPriority_BeforeEqual(q, item) ==
  LET later == {i \in 1..Len(q) : q[i].priority >= item.priority}
  IN IF later = {} THEN Append(q, item)
     ELSE LET index == CHOOSE i \in later : \A j \in later : i <= j
          IN SubSeq(q, 1, index - 1) \o <<item>> \o SubSeq(q, index, Len(q))

insertByPriority(q, item) ==
  LET later == {i \in 1..Len(q) : q[i].priority > item.priority}
  IN IF later = {} THEN Append(q, item)
     ELSE LET index == CHOOSE i \in later : \A j \in later : i <= j
          IN SubSeq(q, 1, index - 1) \o <<item>> \o SubSeq(q, index, Len(q))

hasRequiredSkills(a, skills) ==
  \/ skills = {}
  \/ \E skill \in skills : skill \in agentSkills(a) \/ roleIncludes(a, skill)

\* The agents array passed to submitTask holds the MasterAgent's own objects.
findBestAgent_FallbackMostCompleted(S, k) ==
  LET idle(a) == a \in team /\ S.agentStatus[a] = "idle"
      available == SelectSeq(AgentSeq, LAMBDA a : idle(a) /\ hasRequiredSkills(a, requiredSkills(k)))
      anyIdle == SelectSeq(AgentSeq, idle)
      most(seq) == CHOOSE i \in 1..Len(seq) :
                     /\ \A j \in 1..Len(seq) :
                          S.agentCompleted[seq[j]] <= S.agentCompleted[seq[i]]
                     /\ \A j \in 1..(i - 1) :
                          S.agentCompleted[seq[j]] < S.agentCompleted[seq[i]]
  IN IF Len(available) = 0
     THEN (IF Len(anyIdle) = 0 THEN None ELSE anyIdle[most(anyIdle)])
     ELSE available[most(available)]

findBestAgent(S, k) ==
  LET idle(a) == a \in team /\ S.agentStatus[a] = "idle"
      available == SelectSeq(AgentSeq, LAMBDA a : idle(a) /\ hasRequiredSkills(a, requiredSkills(k)))
      anyIdle == SelectSeq(AgentSeq, idle)
      \* stable sort by completedTasks, descending: the first of the largest
      best == CHOOSE i \in 1..Len(available) :
                /\ \A j \in 1..Len(available) :
                     S.agentCompleted[available[j]] <= S.agentCompleted[available[i]]
                /\ \A j \in 1..(i - 1) :
                     S.agentCompleted[available[j]] < S.agentCompleted[available[i]]
  IN IF Len(available) = 0
     THEN (IF Len(anyIdle) = 0 THEN None ELSE anyIdle[1])
     ELSE available[best]

\* Variant of canExecute in which a dependency that has failed counts as done.
canExecute_FailedDepSatisfies(S, item) ==
  /\ item.taskId \in Tasks
  /\ <<item.taskId, item.subTaskId>> \in Keys
  /\ \A depId \in deps[<<item.taskId, item.subTaskId>>] :
       /\ <<item.taskId, depId>> \in Keys
       /\ S.subStatus[<<item.taskId, depId>>] \in {"completed", "failed"}

\* Only 'completed' satisfies a dependency; an id no sub-task of the task
\* carries never does. Sub-task ids of one task are no suffix of one another,
\* so endsWith finds the same sub-task as the equality test.
canExecute(S, item) ==
  /\ item.taskId \in Tasks
  /\ <<item.taskId, item.subTaskId>> \in Keys
  /\ \A depId \in deps[<<item.taskId, item.subTaskId>>] :
       /\ <<item.taskId, depId>> \in Keys
       /\ S.subStatus[<<item.taskId, depId>>] = "completed"

\* Variant of the capacity test that admits one entry too many.
hasCapacity_OffByOne(S) == Len(S.runningTasks) <= maxConcurrency

\* this.runningTasks.size < this.config.maxConcurrency
hasCapacity(S) == Len(S.runningTasks) < maxConcurrency

FreshId(used) == CHOOSE n \in 1..(Cardinality(used) + 1) : n \notin used

\* Map.set: a key already present keeps its place and gets the new value.
runningSet(run, entry) ==
  IF \E i \in 1..Len(run) : run[i].taskId = entry.taskId /\ run[i].subTaskId = entry.subTaskId
  THEN [i \in 1..Len(run) |->
          IF run[i].taskId = entry.taskId /\ run[i].subTaskId = entry.subTaskId
          THEN entry ELSE run[i]]
  ELSE Append(run, entry)

runningDelete(run, t, s) ==
  SelectSeq(run, LAMBDA r : ~(r.taskId = t /\ r.subTaskId = s))

\* executeTask up to its first await: the running entry, the worker's status,
\* the task_started event and the execution now in flight.
executeTask(S, item) ==
  IF item.agentId = None THEN S
  ELSE
    LET id == FreshId({e.id : e \in S.execs}
                      \cup {S.runningTasks[i].exec : i \in 1..Len(S.runningTasks)})
        what == [taskId |-> item.taskId, subTaskId |-> item.subTaskId, agentId |-> item.agentId]
        S1 == [S EXCEPT
                 !.runningTasks = runningSet(@, [taskId |-> item.taskId,
                                                 subTaskId |-> item.subTaskId,
                                                 agentId |-> item.agentId, exec |-> id]),
                 !.agentStatus[item.agentId] = "thinking",
                 !.started = @ \cup {what},
                 !.pauseRequeued = @ \ {what}]
        \* emit task_started: the TaskExecutor's listener runs inside emit
        S2 == handleSchedulerEvent(S1, "task_started", item.taskId, item.subTaskId,
                                   item.agentId)
        \* runSubtask up to its await: agentManager.sendMessage, unless the
        \* sub-task is not found
        S3 == IF <<item.taskId, item.subTaskId>> \in Keys
              THEN [S2 EXCEPT !.invoked = Append(@, what @@ [by |-> "TaskScheduler"])]
              ELSE S2
    IN [S3 EXCEPT
          !.execs = @ \cup {[id |-> id, taskId |-> item.taskId, subTaskId |-> item.subTaskId,
                             agentId |-> item.agentId, aborted |-> FALSE]}]

\* this.taskQueue.filter(item => !(same taskId and subTaskId as nextTask))
removeFromQueue_Head(queue, nextTask) == Tail(queue)

removeFromQueue(queue, nextTask) ==
  SelectSeq(queue, LAMBDA item :
    ~(item.taskId = nextTask.taskId /\ item.subTaskId = nextTask.subTaskId))

RECURSIVE dispatchLoop(_)
dispatchLoop(S) ==
  IF Len(S.taskQueue) > 0 /\ hasCapacity(S)
  THEN LET executableTasks ==
             SelectSeq(S.taskQueue, LAMBDA item : canExecute(S, item) /\ item.agentId # None)
       IN IF Len(executableTasks) = 0 THEN S
          ELSE LET nextTask == executableTasks[1]
                   rest == removeFromQueue(S.taskQueue, nextTask)
                   eligible == {i \in 1..Len(S.taskQueue) :
                                  canExecute(S, S.taskQueue[i])
                                  /\ S.taskQueue[i].agentId # None}
               IN dispatchLoop(executeTask(
                    [S EXCEPT !.taskQueue = rest,
                              !.dispatched = Append(@, nextTask @@ [queue |-> S.taskQueue,
                                                                    eligible |-> eligible])],
                    nextTask))
  ELSE S

\* this.insertByPriority(item) with its trace: how the entry came to be
\* enqueued, after how many retries, whether a dependency of sub-task k was
\* not completed then, and the workers as they were then.
enqueue(S, item, k, via, retryCount) ==
  [S EXCEPT
     !.taskQueue = insertByPriority(@, item),
     !.enqueued = Append(@, [taskId |-> item.taskId, subTaskId |-> item.subTaskId,
                             priority |-> item.priority, key |-> k, via |-> via,
                             retryCount |-> retryCount, agentId |-> item.agentId,
                             agentStatus |-> S.agentStatus,
                             agentCompleted |-> S.agentCompleted,
                             unmet |-> \E d \in deps[k] :
                                         S.subStatus[<<k[1], d>>] # "completed"])]

\* The isProcessing flag is set and cleared inside one synchronous run of the
\* loop, so it is false whenever a callback starts.
processQueue(S) ==
  LET S1 == dispatchLoop(S)
  IN IF Len(S1.taskQueue) > 0 /\ hasCapacity(S1)
     THEN [S1 EXCEPT !.pollTimers = Min(@ + 1, MaxPollTimers)]
     ELSE S1

RECURSIVE submitLoop(_, _, _, _)
submitLoop(S, id, t, i) ==
  IF i > Len(subtasks(t)) THEN S
  ELSE
    LET s == subtasks(t)[i]
        agentId == findBestAgent(S, <<t, s>>)
        queueItem == [taskId |-> id, subTaskId |-> s,
                      priority |-> calculatePriority(<<t, s>>), agentId |-> agentId,
                      enqueueTime |-> S.clock]
        S1 == enqueue(S, queueItem, <<t, s>>, "submit", 0)
        S2 == IF agentId # None THEN assignTask(S1, id, agentId, s) ELSE S1
    IN submitLoop(S2, id, t, i + 1)

\* submitTask(taskAnalysis, subAgents): id is taskAnalysis.id, t the task
\* whose sub-task array the argument carries.
submitTask(S, id, t) == processQueue(submitLoop(S, id, t, 1))

(***************************************************************************)
(* TaskScheduler: outcomes of an execution.                                *)
(***************************************************************************)
setIdle(S, a) ==
  [S EXCEPT !.agentStatus[a] = "idle", !.agentCurrent[a] = None,
            !.agentCompleted[a] = @ + 1]

handleTaskComplete(S, t, s, agentId, result) ==
  LET S1 == [S EXCEPT !.runningTasks = runningDelete(@, t, s),
                      !.taskRetryCount[<<t, s>>] = 0]
      S2 == updateSubtaskResult(S1, t, s, result, TRUE)
      S3 == [setIdle(S2, agentId) EXCEPT
               !.emitted = @ \cup {[type |-> "task_completed", taskId |-> t, subTaskId |-> s]}]
  IN processQueue(S3)

mayRetry(retryCount) == retryCount < retryAttempts

handleTaskError(S, t, s, agentId, errorMessage) ==
  LET k == <<t, s>>
      retryCount == S.taskRetryCount[k]
  IN IF mayRetry(retryCount)
     THEN [S EXCEPT
             !.taskRetryCount[k] = retryCount + 1,
             !.retryTimers = @ \cup
               {[id |-> FreshId({x.id : x \in S.retryTimers}), taskId |-> t,
                 subTaskId |-> s, agentId |-> agentId, retryCount |-> retryCount]}]
     ELSE
       LET S1 == [S EXCEPT !.runningTasks = runningDelete(@, t, s),
                           !.taskRetryCount[k] = 0]
           S2 == updateSubtaskResult(S1, t, s, errorMessage, FALSE)
       IN processQueue([S2 EXCEPT
                          !.agentStatus[agentId] = "error",
                          !.agentCurrent[agentId] = None,
                          !.emitted = @ \cup {[type |-> "task_failed", taskId |-> t,
                                               subTaskId |-> s]}])

\* The setTimeout callback of handleTaskError.
retryCallback(S, tm) ==
  IF <<tm.taskId, tm.subTaskId>> \in Keys
  THEN LET k == <<tm.taskId, tm.subTaskId>>
           item == [taskId |-> tm.taskId, subTaskId |-> tm.subTaskId,
                    priority |-> calculatePriority(k) + tm.retryCount,
                    agentId |-> tm.agentId, enqueueTime |-> S.clock]
       IN processQueue([enqueue(S, item, k, "retry", tm.retryCount) EXCEPT
                          !.runningTasks = runningDelete(@, tm.taskId, tm.subTaskId)])
  ELSE S

(***************************************************************************)
(* TaskScheduler: control methods.                                         *)
(***************************************************************************)
\* abortController.abort() of a running entry: the signal of the execution
\* it was created for, which no code reads.
abort(S, r) ==
  [S EXCEPT !.execs = {IF e.id = r.exec THEN [e EXCEPT !.aborted = TRUE] ELSE e : e \in @}]

RECURSIVE pauseLoop(_, _, _)
pauseLoop(S, t, entries) ==
  IF Len(entries) = 0 THEN S
  ELSE
    LET r == Head(entries)
        item == [taskId |-> t, subTaskId |-> r.subTaskId,
                 priority |-> calculatePriority(<<t, r.subTaskId>>), agentId |-> r.agentId,
                 enqueueTime |-> S.clock]
        S1 == abort(S, r)
        S2 == [enqueue(S1, item, <<t, r.subTaskId>>, "pause", 0) EXCEPT
                 !.runningTasks = runningDelete(@, t, r.subTaskId),
                 !.pauseRequeued = @ \cup {[taskId |-> t, subTaskId |-> r.subTaskId,
                                            agentId |-> r.agentId]}]
    IN pauseLoop(S2, t, Tail(entries))

schedulerPauseTask(S, t) ==
  pauseLoop(S, t, SelectSeq(S.runningTasks, LAMBDA r : r.taskId = t))

RECURSIVE abortAll(_, _)
abortAll(S, entries) ==
  IF Len(entries) = 0 THEN S ELSE abortAll(abort(S, Head(entries)), Tail(entries))

cancelTask(S, t) ==
  LET S1 == abortAll(S, SelectSeq(S.runningTasks, LAMBDA r : r.taskId = t))
  IN [S1 EXCEPT !.runningTasks = SelectSeq(@, LAMBDA r : r.taskId # t),
                !.taskQueue = SelectSeq(@, LAMBDA item : item.taskId # t)]

(***************************************************************************)
(* ExceptionHandler: pause and resume.                                     *)
(***************************************************************************)
\* masterAgent.getTaskStatus(taskId) finds every analysed task.
pauseTask(S, t) ==
  IF t \notin Tasks THEN S
  ELSE [schedulerPauseTask(S, t) EXCEPT !.pausedTasks = @ \cup {t}]

\* The stored TaskResult is passed where a TaskAnalysis is expected, so
\* taskAnalysis.id reads a field it does not have.
resumeTask(S, t) ==
  IF t \notin S.pausedTasks THEN S
  ELSE submitTask([S EXCEPT !.pausedTasks = @ \ {t}], Undefined, t)

(***************************************************************************)
(* ExceptionHandler: records, strategies, human intervention.  A record's  *)
(* id is its position in exceptions.                                       *)
(***************************************************************************)
severityLevels(severity) ==
  CASE severity = "low" -> 1
    [] severity = "medium" -> 2
    [] severity = "high" -> 3
    [] severity = "critical" -> 4

\* currentLevel >= thresholdLevel
shouldRequireHumanIntervention_StrictlyAbove(severity, type) ==
  IF severity = "critical" THEN TRUE
  ELSE IF severityLevels(severity) > severityLevels(config.humanInterventionThreshold)
       THEN TRUE
       ELSE type \in {"validation_error", "resource_unavailable"}

shouldRequireHumanIntervention(severity, type) ==
  IF severity = "critical" THEN TRUE
  ELSE IF severityLevels(severity) >= severityLevels(config.humanInterventionThreshold)
       THEN TRUE
       ELSE type \in {"validation_error", "resource_unavailable"}

retryKey(ex) == <<ex.taskId, ex.subTaskId>>

\* retryCount < this.config.maxAutoRetries
belowMaxAutoRetries_OffByOne(retryCount) == retryCount <= config.maxAutoRetries

belowMaxAutoRetries(retryCount) == retryCount < config.maxAutoRetries

\* case 'medium': return 'reassign'
determineStrategy_MediumSkips(S, ex) ==
  LET retryCount == S.retryCounts[retryKey(ex)]
      bySeverity ==
        CASE ex.severity \in {"low", "medium"} -> "skip"
          [] ex.severity \in {"high", "critical"} ->
               IF config.autoEscalationEnabled THEN "escalate" ELSE "await_human"
          [] OTHER -> "await_human"
  IN IF belowMaxAutoRetries(retryCount) /\ ex.type \in {"task_failure", "agent_error"}
     THEN "auto_retry"
     ELSE IF belowMaxAutoRetries(retryCount) /\ ex.type = "task_timeout"
          THEN (IF config.autoRetryEnabled THEN "auto_retry" ELSE "await_human")
          ELSE bySeverity

determineStrategy(S, ex) ==
  LET retryCount == S.retryCounts[retryKey(ex)]
      bySeverity ==
        CASE ex.severity = "low" -> "skip"
          [] ex.severity = "medium" -> "reassign"
          [] ex.severity \in {"high", "critical"} ->
               IF config.autoEscalationEnabled THEN "escalate" ELSE "await_human"
          [] OTHER -> "await_human"
  IN IF belowMaxAutoRetries(retryCount) /\ ex.type \in {"task_failure", "agent_error"}
     THEN "auto_retry"
     ELSE IF belowMaxAutoRetries(retryCount) /\ ex.type = "task_timeout"
          THEN (IF config.autoRetryEnabled THEN "auto_retry" ELSE "await_human")
          ELSE bySeverity

setStatus(S, id, status) ==
  [S EXCEPT !.exceptions[id].status = status,
            !.statusTrail = IF S.exceptions[id].status = status THEN @
                            ELSE Append(@, [id |-> id, from |-> S.exceptions[id].status,
                                            to |-> status])]

resolveException(S, id, action) ==
  IF id \notin 1..Len(S.exceptions) THEN S
  ELSE [setStatus(S, id, "resolved") EXCEPT !.exceptions[id].resolution = action]

\* notifyAgentsOfException hands a notification to the CollaborationManager,
\* whose stores no handler here reads.
\* The workers notifyAgentsOfException selects: at most two others.
otherAgents(ex) ==
  LET others == SelectSeq(AgentSeq, LAMBDA a : a \in team /\ a # ex.agentId)
  IN SubSeq(others, 1, Min(2, Len(others)))

\* One request is built, for otherAgents[0], with fromAgentId 'master'.
notifyAgentsOfException(S, id) ==
  LET ex == S.exceptions[id]
  IN IF Len(otherAgents(ex)) > 0
     THEN sendMessage(S, "master", otherAgents(ex)[1], "notification", ex.taskId,
                      FALSE, 0, FALSE)
     ELSE S

requestHumanIntervention(S, id) ==
  LET ex == S.exceptions[id]
      S1 == [setStatus(S, id, "pending") EXCEPT
               !.exceptions[id].requiresHumanIntervention = TRUE,
               !.exceptions[id].humanIntervention = "pending"]
      S2 == IF config.pauseOnCritical /\ ex.severity = "critical"
            THEN pauseTask(S1, ex.taskId)
            ELSE S1
  IN notifyAgentsOfException(S2, id)

\* handleAutoRetry up to its await of the delay.
handleAutoRetry(S, id) ==
  LET ex == S.exceptions[id]
      currentRetries == S.retryCounts[retryKey(ex)]
      S1 == [S EXCEPT !.retryCounts[retryKey(ex)] = currentRetries + 1]
  IN [setStatus(S1, id, "resolving") EXCEPT !.ehTimers = @ \cup {id}]

\* handleAutoRetry after the delay.
autoRetryAfterDelay(S, id) ==
  LET ex == S.exceptions[id]
      S1 == IF ex.subTaskId # None /\ ex.taskId \in Tasks
            THEN submitTask(S, Undefined, ex.taskId)
            ELSE S
  IN resolveException(S1, id, "auto_retry")

handleSkip(S, id) ==
  LET ex == S.exceptions[id]
      S1 == setStatus(S, id, "resolving")
      S2 == IF ex.subTaskId # None
            THEN updateSubtaskResult(S1, ex.taskId, ex.subTaskId, "Skipped due to error", FALSE)
            ELSE S1
  IN resolveException(S2, id, "skip")

handleReassign(S, id) ==
  LET ex == S.exceptions[id]
      S1 == setStatus(S, id, "resolving")
      availableAgents ==
        SelectSeq(AgentSeq, LAMBDA a : a \in team /\ a # ex.agentId
                                       /\ S1.agentStatus[a] = "idle")
  IN IF Len(availableAgents) > 0
     THEN LET newAgent == availableAgents[1]
              S2 == IF ex.subTaskId # None
                    THEN LET S3 == assignTask(S1, ex.taskId, newAgent, ex.subTaskId)
                         IN IF ex.taskId \in Tasks
                            THEN submitTask(S3, Undefined, ex.taskId)
                            ELSE S3
                    ELSE S1
          IN resolveException(S2, id, "reassign")
     ELSE requestHumanIntervention(S1, id)

handleAbort(S, id) ==
  LET ex == S.exceptions[id]
      S1 == setStatus(S, id, "resolving")
  IN resolveException(abortTask(cancelTask(S1, ex.taskId), ex.taskId), id, "abort")

handleManualRetry(S, id) ==
  LET ex == S.exceptions[id]
      S1 == [S EXCEPT !.retryCounts[retryKey(ex)] = 0]
      S2 == IF ex.subTaskId # None /\ ex.taskId \in Tasks
            THEN submitTask(S1, Undefined, ex.taskId)
            ELSE S1
  IN resolveException(S2, id, "manual_retry")

handleExceptionAutomatically(S, id) ==
  LET ex == S.exceptions[id]
      strategy == determineStrategy(S, ex)
      S1 == [S EXCEPT !.exceptions[id].strategy = strategy,
                      !.exceptions[id].retryCountThen = S.retryCounts[retryKey(ex)]]
  IN IF ex.requiresHumanIntervention THEN requestHumanIntervention(S, id)
     ELSE CASE strategy = "auto_retry" -> handleAutoRetry(S1, id)
            [] strategy = "skip" -> handleSkip(S1, id)
            [] strategy = "reassign" -> handleReassign(S1, id)
            [] strategy = "abort" -> handleAbort(S1, id)
            [] OTHER -> requestHumanIntervention(S1, id)

\* override is params.requiresHumanIntervention: "true", "false" or None
\* (absent).  requiredAtCreation, override, strategy and retryCountThen are
\* history: what recordException stored and what determineStrategy was given
\* and returned for this record.
recordException(S, type, severity, t, s, a, override) ==
  LET requires == IF override = None THEN shouldRequireHumanIntervention(severity, type)
                  ELSE override = "true"
      exception ==
        [type |-> type, severity |-> severity, taskId |-> t, subTaskId |-> s,
         agentId |-> a, status |-> "pending",
         requiresHumanIntervention |-> requires,
         humanIntervention |-> None, resolution |-> None,
         requiredAtCreation |-> requires, override |-> override,
         strategy |-> None, retryCountThen |-> 0]
      S1 == [S EXCEPT !.exceptions = Append(@, exception)]
  IN handleExceptionAutomatically(S1, Len(S1.exceptions))

respondToIntervention(S, id, decision) ==
  IF id \notin 1..Len(S.exceptions) THEN S
  ELSE IF S.exceptions[id].humanIntervention = None THEN S
  ELSE
    LET S1 == setStatus([S EXCEPT !.exceptions[id].humanIntervention = decision],
                        id, "resolving")
    IN CASE decision = "retry" -> handleManualRetry(S1, id)
         [] decision = "skip" -> handleSkip(S1, id)
         [] decision = "abort" -> handleAbort(S1, id)
         [] decision = "reassign" -> handleReassign(S1, id)

acknowledgeException(S, id) ==
  IF id \notin 1..Len(S.exceptions) THEN S
  ELSE IF S.exceptions[id].status # "pending" THEN S
  ELSE setStatus(S, id, "acknowledged")

(***************************************************************************)
(* Initial state: both tasks analysed, the worker team created.            *)
(***************************************************************************)
Plans ==
  {[k \in Keys |-> IF k = <<"T1", "s2">> THEN d ELSE {}] : d \in {{}, {"s1"}}}

\* Everything but the plan, the team and the budget.
InitStores ==
  /\ subStatus = [k \in Keys |-> "pending"]
  /\ subAssigned = [k \in Keys |-> None]
  /\ subResult = [k \in Keys |-> None]
  /\ taskStatus = [t \in Tasks |-> "pending"]
  /\ taskProgress = [t \in Tasks |-> 0]
  /\ agentStatus = [a \in Agents |-> "idle"]
  /\ agentCurrent = [a \in Agents |-> None]
  /\ agentCompleted = [a \in Agents |-> 0]
  /\ taskQueue = <<>>
  /\ runningTasks = <<>>
  /\ taskRetryCount = [k \in Keys |-> 0]
  /\ execs = {}
  /\ retryTimers = {}
  /\ pollTimers = 0
  /\ pausedTasks = {}
  /\ exceptions = <<>>
  /\ retryCounts = [k \in EHPairs |-> 0]
  /\ ehTimers = {}
  /\ statusTrail = <<>>
  /\ executeStates = [k \in Keys |-> NoState]
  /\ execGen = [k \in Keys |-> 0]
  /\ calls = {}
  /\ execDone = {}
  /\ sessions = <<>>
  /\ messages = <<>>
  /\ records = {}
  /\ agentConversations = [a \in Agents |-> <<>>]
  /\ deliveries = {}
  /\ replyTimers = {}
  /\ purgeTimers = {}
  /\ aggregatedResults = {}
  /\ aggregations = {}
  /\ overwritten = {}
  /\ clock = 0
  /\ started = {}
  /\ dispatched = <<>>
  /\ enqueued = <<>>
  /\ invoked = <<>>
  /\ emitted = {}
  /\ timedOut = {}
  /\ cancelled = {}
  /\ pauseRequeued = {}

Init ==
  /\ InitStores
  /\ deps \in Plans
  /\ team = Agents
  /\ config = DefaultConfig
  /\ budget = [submits |-> MaxSubmits, failures |-> MaxFailures, controls |-> MaxControls]

(***************************************************************************)
(* Actions.                                                                *)
(***************************************************************************)
\* POST /api/master/assign: taskScheduler.submitTask(analysis, agents)
SubmitTask(t) ==
  /\ budget.submits > 0
  /\ Becomes(submitTask(Cur, t, t))
  /\ cancelled' = cancelled \ {t}
  /\ budget' = [budget EXCEPT !.submits = @ - 1]

\* An execution's runSubtask resolves: executeTask goes on to handleTaskComplete.
Complete(e) ==
  /\ e \in execs
  /\ Becomes(handleTaskComplete([Cur EXCEPT !.execs = @ \ {e}],
                                e.taskId, e.subTaskId, e.agentId, "output"))
  /\ UNCHANGED <<cancelled, budget>>

\* An execution's runSubtask rejects, or the watchdog wins the race.
Fail(e, errorMessage) ==
  /\ e \in execs
  /\ budget.failures > 0
  /\ Becomes(handleTaskError(
               [Cur EXCEPT !.execs = @ \ {e},
                           !.timedOut = IF errorMessage = "Task timeout"
                                        THEN {[taskId |-> e.taskId, subTaskId |-> e.subTaskId,
                                               exec |-> e.id]}
                                        ELSE {}],
               e.taskId, e.subTaskId, e.agentId, errorMessage))
  /\ budget' = [budget EXCEPT !.failures = @ - 1]
  /\ UNCHANGED <<cancelled>>

RetryTimer(tm) ==
  /\ tm \in retryTimers
  /\ Becomes(retryCallback([Cur EXCEPT !.retryTimers = @ \ {tm}], tm))
  /\ UNCHANGED <<cancelled, budget>>

PollTimer ==
  /\ pollTimers > 0
  /\ Becomes(processQueue([Cur EXCEPT !.pollTimers = @ - 1]))
  /\ UNCHANGED <<cancelled, budget>>

\* ExceptionHandler.pauseTask (POST /api/master/pause/:taskId)
PauseTask(t) ==
  /\ budget.controls > 0
  /\ Becomes(pauseTask(Cur, t))
  /\ budget' = [budget EXCEPT !.controls = @ - 1]
  /\ UNCHANGED <<cancelled>>

\* ExceptionHandler.resumeTask: the stored TaskResult is passed where a
\* TaskAnalysis is expected, so taskAnalysis.id reads a field it does not have.
ResumeTask(t) ==
  /\ t \in pausedTasks
  /\ Becomes(resumeTask(Cur, t))
  /\ UNCHANGED <<cancelled, budget>>

\* POST /api/master/cancel/:taskId
CancelTask(t) ==
  /\ budget.controls > 0
  /\ Becomes(cancelTask(Cur, t))
  /\ cancelled' = cancelled \cup {t}
  /\ budget' = [budget EXCEPT !.controls = @ - 1]

ErrorMessages == {"Worker error", "Task timeout"}

\* TaskExecutor: the stream of an attempt ends, or fails with one of two errors.
StreamErrors == {"Stream error", "Agent not found"}

ExecAttemptResolves(c) ==
  /\ c \in calls /\ c.phase = "attempt"
  /\ Becomes(attemptResolved(Cur, c))
  /\ UNCHANGED <<cancelled, budget>>

\* The stream yields a chunk with content.
ExecStreamChunk(c, due) ==
  /\ c \in calls /\ c.phase = "attempt"
  /\ Cardinality({i \in DOMAIN objOf(Cur, c).events :
                    objOf(Cur, c).events[i] = "task_stream"}) < ExecMaxChunks
  /\ Becomes(streamChunk(Cur, c, due))
  /\ UNCHANGED <<cancelled, budget>>

ExecAttemptRejects(c, error) ==
  /\ c \in calls /\ c.phase = "attempt"
  /\ Becomes(attemptRejected(Cur, c, error))
  /\ UNCHANGED <<cancelled, budget>>

ExecDelayOver(c) ==
  /\ c \in calls /\ c.phase = "delay"
  /\ Becomes(delayOver(Cur, c))
  /\ UNCHANGED <<cancelled, budget>>

\* taskExecutor.abortTask(taskId)
ExecAbortTask(t) ==
  /\ budget.controls > 0
  /\ Becomes(abortTask(Cur, t))
  /\ budget' = [budget EXCEPT !.controls = @ - 1]
  /\ UNCHANGED <<cancelled>>

\* POST /api/master/collaborate: collaborationManager.sendMessage(request)
SendMessage(fromAgentId, toAgentId, taskId, requireResponse) ==
  /\ budget.sends > 0
  /\ Becomes(sendMessage(Cur, fromAgentId, toAgentId, "question", taskId,
                          requireResponse, 0, FALSE))
  /\ budget' = [budget EXCEPT !.sends = @ - 1]
  /\ UNCHANGED <<cancelled>>

\* The addressee's stream ends: response is what it produced.
DeliveryDone(id, response) ==
  /\ id \in deliveries
  /\ Becomes(deliveryDone(Cur, id, response))
  /\ UNCHANGED <<cancelled, budget>>

DeliveryFails(id) ==
  /\ id \in deliveries
  /\ Becomes(deliveryFailed(Cur, id))
  /\ UNCHANGED <<cancelled, budget>>

AutoReplyTimer(id) ==
  /\ id \in replyTimers
  /\ Becomes(autoReply(Cur, id))
  /\ UNCHANGED <<cancelled, budget>>

\* collaborationManager.replyMessage(originalMessageId, content)
ReplyMessage(originalMessageId) ==
  /\ budget.replies > 0
  /\ originalMessageId \in 1..Len(messages)
  /\ Becomes(replyMessage(Cur, originalMessageId, "answer"))
  /\ budget' = [budget EXCEPT !.replies = @ - 1]
  /\ UNCHANGED <<cancelled>>

\* collaborationManager.createSession(taskId, participantIds)
CreateSession(taskId, participantIds) ==
  /\ budget.creates > 0
  /\ Becomes(createSession(Cur, taskId, participantIds, FALSE))
  /\ budget' = [budget EXCEPT !.creates = @ - 1]
  /\ UNCHANGED <<cancelled>>

\* collaborationManager.closeSession(sessionId, saveRecord)
CloseSession(sessionId, saveRecord) ==
  /\ budget.closes > 0
  /\ sessionId \in 1..Len(sessions)
  /\ Becomes(closeSession(Cur, sessionId, saveRecord))
  /\ budget' = [budget EXCEPT !.closes = @ - 1]
  /\ UNCHANGED <<cancelled>>

PurgeTimer(sessionId) ==
  /\ sessionId \in purgeTimers
  /\ Becomes(purgeSession(Cur, sessionId))
  /\ UNCHANGED <<cancelled, budget>>

\* POST /api/master/aggregate/:taskId: resultAggregator.aggregateResults
AggregateResults(t) ==
  /\ budget.aggregates > 0
  /\ Becomes(aggregateStart(Cur, t, budget.aggregates))
  /\ budget' = [budget EXCEPT !.aggregates = @ - 1]
  /\ UNCHANGED <<cancelled>>

\* adapter.chat settles: with the text of the model, or with an error.
SummaryArrives(c, outcome) ==
  /\ c \in aggregations
  /\ Becomes(aggregateFinish(Cur, c, outcome))
  /\ UNCHANGED <<cancelled, budget>>

\* Time passes.
Tick(d) ==
  /\ clock + d <= MaxClock
  /\ Becomes([Cur EXCEPT !.clock = @ + d])
  /\ UNCHANGED <<cancelled, budget>>

\* exceptionHandler.recordException(params)
RecordException(type, severity, t, s, a, override) ==
  /\ budget.reports > 0
  /\ Becomes(recordException(Cur, type, severity, t, s, a, override))
  /\ budget' = [budget EXCEPT !.reports = @ - 1]
  /\ UNCHANGED <<cancelled>>

\* The delay awaited by handleAutoRetry is over.
AutoRetryTimer(id) ==
  /\ id \in ehTimers
  /\ Becomes(autoRetryAfterDelay([Cur EXCEPT !.ehTimers = @ \ {id}], id))
  /\ UNCHANGED <<cancelled, budget>>

\* POST /api/master/exceptions/:id/respond; the id may be one no record has
RespondToIntervention(id, decision) ==
  /\ budget.responds > 0
  /\ Becomes(respondToIntervention(Cur, id, decision))
  /\ budget' = [budget EXCEPT !.responds = @ - 1]
  /\ UNCHANGED <<cancelled>>

\* exceptionHandler.acknowledgeException(id, by), when the call returns true
AcknowledgeException(id) ==
  /\ id \in 1..Len(exceptions)
  /\ exceptions[id].status = "pending"
  /\ Becomes(acknowledgeException(Cur, id))
  /\ UNCHANGED <<cancelled, budget>>

Decisions == {"retry", "skip", "abort", "reassign"}

Next ==
  \/ \E t \in Tasks : SubmitTask(t)
  \/ \E e \in execs : Complete(e)
  \/ \E e \in execs, m \in ErrorMessages : Fail(e, m)
  \/ \E tm \in retryTimers : RetryTimer(tm)
  \/ PollTimer
  \/ \E t \in Tasks : PauseTask(t)
  \/ \E t \in Tasks : ResumeTask(t)
  \/ \E t \in Tasks : CancelTask(t)

Spec == Init /\ [][Next]_vars

(***************************************************************************)
(* Pause and resume of a task that is submitted once: no cancel, and no    *)
(* second submission that would put a second entry of a pair in the queue. *)
(***************************************************************************)
PauseMaxFailures == 2
PauseMaxPauses == 2

InitPause ==
  /\ InitStores
  /\ deps \in Plans
  /\ team = Agents
  /\ config = DefaultConfig
  /\ budget = [submits |-> 1, failures |-> PauseMaxFailures, controls |-> PauseMaxPauses]

NextPause ==
  \/ \E t \in Tasks : SubmitTask(t)
  \/ \E e \in execs : Complete(e)
  \/ \E e \in execs, m \in ErrorMessages : Fail(e, m)
  \/ \E tm \in retryTimers : RetryTimer(tm)
  \/ PollTimer
  \/ \E t \in Tasks : PauseTask(t)
  \/ \E t \in Tasks : ResumeTask(t)

SpecPause == InitPause /\ [][NextPause]_vars

(***************************************************************************)
(* Runs without failure: independent sub-tasks, a team of one to three     *)
(* workers, no execution fails, and nobody pauses or cancels.              *)
(***************************************************************************)
Teams == {{"A1"}, {"A1", "A2"}, Agents}

InitNoFailure ==
  /\ InitStores
  /\ deps = [k \in Keys |-> {}]
  /\ team \in Teams
  /\ config = DefaultConfig
  /\ budget = [submits |-> MaxSubmits, failures |-> 0, controls |-> 0]

NextNoFailure ==
  \/ \E t \in Tasks : SubmitTask(t)
  \/ \E e \in execs : Complete(e)
  \/ PollTimer

SpecNoFailure == InitNoFailure /\ [][NextNoFailure]_vars

(***************************************************************************)
(* Failures reported to the ExceptionHandler while one task runs: reports  *)
(* about sub-task s1 of T2 and its worker A1, their automatic handling and *)
(* the operator's answers, interleaved with the scheduler's own callbacks. *)
(***************************************************************************)
EHMaxFailures == 2
EHMaxReports == 4
EHMaxResponds == 2
ReportedSeverities == {"medium", "high"}

InitEH ==
  /\ InitStores
  /\ deps = [k \in Keys |-> {}]
  /\ team = Agents
  /\ config = DefaultConfig
  /\ budget = [submits |-> 1, failures |-> EHMaxFailures, controls |-> 0,
               reports |-> EHMaxReports, responds |-> EHMaxResponds]

NextEH ==
  \/ SubmitTask("T2")
  \/ \E e \in execs : Complete(e)
  \/ \E e \in execs : Fail(e, "Worker error")
  \/ \E tm \in retryTimers : RetryTimer(tm)
  \/ PollTimer
  \/ \E severity \in ReportedSeverities :
       \* a failure of the worker the sub-task is assigned to
       /\ subAssigned[<<"T2", "s1">>] = "A1"
       /\ RecordException("task_failure", severity, "T2", "s1", "A1", None)
  \/ \E id \in ehTimers : AutoRetryTimer(id)
  \/ \E id \in 1..(Len(exceptions) + 1), decision \in Decisions :
       RespondToIntervention(id, decision)
  \/ \E id \in 1..Len(exceptions) : AcknowledgeException(id)

SpecEH == InitEH /\ [][NextEH]_vars

\* The classification of reported failures: every exception type and severity
\* is reported, with and without an explicit requiresHumanIntervention, under
\* every setting of the threshold and of the two switches that
\* determineStrategy reads.
ClassifyMaxAutoRetries == 1
ClassifyMaxReports == 2
ExceptionTypes ==
  {"task_failure", "task_timeout", "agent_error", "dependency_fail",
   "resource_unavailable", "validation_error", "unknown"}
ExceptionSeverities == {"low", "medium", "high", "critical"}

ClassifyConfigs ==
  {[DefaultConfig EXCEPT !.autoRetryEnabled = r, !.autoEscalationEnabled = e,
                         !.humanInterventionThreshold = th,
                         !.maxAutoRetries = ClassifyMaxAutoRetries] :
     r \in BOOLEAN, e \in BOOLEAN, th \in ExceptionSeverities}

InitClassify ==
  /\ InitStores
  /\ deps = [k \in Keys |-> {}]
  /\ team = Agents
  /\ config \in ClassifyConfigs
  /\ budget = [submits |-> 0, failures |-> 0, controls |-> 0,
               reports |-> ClassifyMaxReports, responds |-> 0]

NextClassify ==
  \/ \E type \in ExceptionTypes, severity \in ExceptionSeverities,
         override \in {None, "false"} :
       RecordException(type, severity, "T2", "s1", "A1", override)
  \/ \E id \in ehTimers : AutoRetryTimer(id)

SpecClassify == InitClassify /\ [][NextClassify]_vars

\* Collaboration between workers: messages of a task and messages without
\* a task between two workers, their deliveries and automatic replies,
\* explicit replies, and sessions created and closed from outside.
CollabMaxSends == 2
CollabMaxReplies == 1
CollabMaxCreates == 1
CollabMaxCloses == 1

InitCollab ==
  /\ InitStores
  /\ deps = [k \in Keys |-> {}]
  /\ team = Agents
  /\ config = DefaultConfig
  /\ budget = [submits |-> 0, failures |-> 0, controls |-> 0, reports |-> 0,
               responds |-> 0, sends |-> CollabMaxSends, replies |-> CollabMaxReplies,
               creates |-> CollabMaxCreates, closes |-> CollabMaxCloses]

NextCollab ==
  \/ \E taskId \in {None, "T1"}, requireResponse \in BOOLEAN :
       SendMessage("A1", "A2", taskId, requireResponse)
  \/ \E id \in deliveries, response \in {"", "answer text"} : DeliveryDone(id, response)
  \/ \E id \in deliveries : DeliveryFails(id)
  \/ \E id \in replyTimers : AutoReplyTimer(id)
  \/ \E id \in 1..Len(messages) : ReplyMessage(id)
  \/ CreateSession("T1", {"A1", "A2"})
  \/ \E sessionId \in 1..Len(sessions), saveRecord \in BOOLEAN :
       CloseSession(sessionId, saveRecord)
  \/ \E sessionId \in purgeTimers : PurgeTimer(sessionId)

SpecCollab == InitCollab /\ [][NextCollab]_vars

\* Worker selection with a past: three submissions that all succeed, so that
\* idle workers differ in their completed tasks when the last one chooses.
SelectMaxSubmits == 3

InitSelect ==
  /\ InitStores
  /\ deps = [k \in Keys |-> {}]
  /\ team = Agents
  /\ config = DefaultConfig
  /\ budget = [submits |-> SelectMaxSubmits, failures |-> 0, controls |-> 0]

SpecSelect == InitSelect /\ [][NextNoFailure]_vars

\* The queue over time: submissions, one failure with its retry, one pause,
\* and the clock that stamps enqueueTime moving between callbacks.
InitQueue ==
  /\ InitStores
  /\ deps \in Plans
  /\ team = Agents
  /\ config = DefaultConfig
  /\ budget = [submits |-> MaxSubmits, failures |-> 1, controls |-> 1]

NextQueue ==
  \/ \E t \in Tasks : SubmitTask(t)
  \/ \E e \in execs : Complete(e)
  \/ \E e \in execs : Fail(e, "Worker error")
  \/ \E tm \in retryTimers : RetryTimer(tm)
  \/ PollTimer
  \/ \E t \in Tasks : PauseTask(t)
  \/ Tick(MaxClock)

SpecQueue == InitQueue /\ [][NextQueue]_vars

\* Aggregation of a task's results before, while and after the task runs:
\* the summary comes from the model or from the fallback, and the clock
\* moves in steps of 600 ms.
AggMaxCalls == 2
AggMaxFailures == 2

InitAggregate ==
  /\ InitStores
  /\ deps = [k \in Keys |-> {}]
  /\ team = Agents
  /\ config = DefaultConfig
  /\ budget = [submits |-> 1, failures |-> AggMaxFailures, controls |-> 0,
               aggregates |-> AggMaxCalls]

NextAggregate ==
  \/ SubmitTask("T2")
  \/ \E e \in execs : Complete(e)
  \/ \E e \in execs : Fail(e, "Worker error")
  \/ \E tm \in retryTimers : RetryTimer(tm)
  \/ \E t \in {"T2", "T9"} : AggregateResults(t)
  \/ \E c \in aggregations, outcome \in {"summary A", "summary B", "error"} :
       SummaryArrives(c, outcome)
  \/ \E d \in {600} : Tick(d)

SpecAggregate == InitAggregate /\ [][NextAggregate]_vars

\* The executions TaskExecutor starts on task_started: the scheduler
\* dispatches T2.s1 (again after a failure of its own), each attempt of the
\* executor resolves or rejects, and abortTask may come in between.
ExecMaxFailures == 1
ExecMaxAborts == 1

InitExec ==
  /\ InitStores
  /\ deps = [k \in Keys |-> {}]
  /\ team = Agents
  /\ config = DefaultConfig
  /\ budget = [submits |-> 1, failures |-> ExecMaxFailures, controls |-> ExecMaxAborts,
               reports |-> 0, responds |-> 0]

NextExec ==
  \/ SubmitTask("T2")
  \/ \E e \in execs : Complete(e)
  \/ \E e \in execs : Fail(e, "Worker error")
  \/ \E tm \in retryTimers : RetryTimer(tm)
  \/ \E c \in calls : ExecAttemptResolves(c)
  \/ \E c \in calls, due \in BOOLEAN : ExecStreamChunk(c, due)
  \/ \E c \in calls, error \in StreamErrors : ExecAttemptRejects(c, error)
  \/ \E c \in calls : ExecDelayOver(c)
  \/ ExecAbortTask("T2")

SpecExec == InitExec /\ [][NextExec]_vars

(***************************************************************************)
(* Claims.                                                                 *)
(***************************************************************************)
RunningStatus == {k \in Keys : subStatus[k] = "running"}
QueuedOf(t) == {i \in 1..Len(taskQueue) : taskQueue[i].taskId = t}
RunningOf(t) == {i \in 1..Len(runningTasks) : runningTasks[i].taskId = t}

\* Nothing is in flight, no retry timer is armed, and a dispatch pass would
\* leave the queue as it is.
Quiescent ==
  /\ execs = {}
  /\ retryTimers = {}
  /\ processQueue(Cur).taskQueue = taskQueue

\* C1: every sub-task whose status is running has all the sub-tasks named in
\* its dependencies in status completed.
C1_RunningImpliesDepsCompleted ==
  \A k \in Keys :
    subStatus[k] = "running" =>
      \A d \in deps[k] : subStatus[<<k[1], d>>] = "completed"

\* C2: the number of sub-tasks, over all tasks, whose status is running is at
\* most maxConcurrency.
C2_RunningStatusWithinMaxConcurrency ==
  Cardinality(RunningStatus) <= maxConcurrency

\* C3: the scheduler's running set never holds more than maxConcurrency
\* entries, counted over all tasks together.
C3_RunningSetWithinMaxConcurrency ==
  Len(runningTasks) <= maxConcurrency

\* The running set is full while an entry that could run waits in the queue.
C3_Witness ==
  /\ Len(runningTasks) = maxConcurrency
  /\ \E i \in 1..Len(taskQueue) :
       /\ canExecute(Cur, taskQueue[i])
       /\ taskQueue[i].agentId # None
       /\ \A j \in 1..Len(runningTasks) : runningTasks[j].taskId # taskQueue[i].taskId

\* C4: with no failing execution, a task of independent sub-tasks that was
\* submitted while a worker was idle gets every sub-task completed, also with
\* more sub-tasks than workers.  Finite form of "eventually": once nothing is
\* in flight and a dispatch pass changes nothing, no sub-task of such a task
\* is left that is not completed.
SubmittedWithIdleWorker(t) == \E k \in KeysOf(t) : subAssigned[k] # None

C4_IndependentSubtasksAllComplete ==
  \A t \in Tasks :
    (Quiescent /\ SubmittedWithIdleWorker(t) /\ \A k \in KeysOf(t) : deps[k] = {})
    => \A k \in KeysOf(t) : subStatus[k] = "completed"

\* C5: an entry is started only in a state where every sub-task named in its
\* dependencies is completed; with a dependency that is failed it is not started.
C5_StartedOnlyWithDepsCompleted ==
  \A x \in started :
    \A d \in deps[<<x.taskId, x.subTaskId>>] :
      subStatus[<<x.taskId, d>>] = "completed"

\* A dependency has failed and its dependent waits in the queue with a worker
\* and free capacity, after the dispatch loop has run.
C5_Witness ==
  /\ Len(runningTasks) < maxConcurrency
  /\ started = {}
  /\ \E i \in 1..Len(taskQueue) :
       /\ taskQueue[i].taskId \in Tasks
       /\ taskQueue[i].agentId # None
       /\ \E d \in deps[<<taskQueue[i].taskId, taskQueue[i].subTaskId>>] :
            subStatus[<<taskQueue[i].taskId, d>>] = "failed"

\* C6: after cancelTask(T), and until T is submitted again, neither the queue
\* nor the running set holds an entry of T.
C6_NoEntryOfCancelledTask ==
  \A t \in cancelled : QueuedOf(t) = {} /\ RunningOf(t) = {}

\* C7: an execution that has been aborted does not afterwards mark its
\* sub-task completed.
C7_AbortedNeverCompletes ==
  [][\A e \in execs :
       (e.aborted /\ e \notin execs'
          /\ subStatus[<<e.taskId, e.subTaskId>>] # "completed")
       => subStatus'[<<e.taskId, e.subTaskId>>] # "completed"]_vars

\* C8: from pauseTask(T) until resumeTask(T) no sub-task of T is started by
\* anything but a submission: not by a completion, a retry timer or a re-poll.
C8_NothingStartedWhilePaused ==
  [][\A t \in pausedTasks \cap pausedTasks' :
       budget'.submits = budget.submits =>
         \A x \in started' : x.taskId # t]_vars

\* C9: after resumeTask(T) the task is not paused and every sub-task of T that
\* the pause re-queued is dispatched again under task id T with the worker of
\* its running entry.  Finite form of "eventually": in a state where nothing
\* is in flight, no retry timer is armed and a dispatch pass changes nothing,
\* no re-queued sub-task of a task that is not paused is still waiting.
C9_RequeuedDispatchedAgainAfterResume ==
  Quiescent => \A x \in pauseRequeued : x.taskId \in pausedTasks

\* C10: every failure of an execution the scheduler started is reported to
\* the ExceptionHandler: a sub-task for which handleTaskError armed a retry or
\* recorded the final failure has an ExceptionRecord.
C10_FailureReportedToExceptionHandler ==
  \A k \in Keys :
    (taskRetryCount[k] > 0 \/ subStatus[k] = "failed")
    => \E i \in 1..Len(exceptions) :
         exceptions[i].taskId = k[1] /\ exceptions[i].subTaskId = k[2]

\* C11: when the watchdog of a running entry fires, the execution is aborted,
\* the entry leaves the running set and a task_timeout event reports it.
C11_TimeoutAbortsAndReportsTaskTimeout ==
  \A x \in timedOut :
    /\ \A i \in 1..Len(runningTasks) : runningTasks[i].exec # x.exec
    /\ \E ev \in emitted :
         ev.type = "task_timeout" /\ ev.taskId = x.taskId /\ ev.subTaskId = x.subTaskId

\* C18: no worker is the worker of two entries of the running set at once.
C18_NoWorkerInTwoRunningEntries ==
  \A i, j \in 1..Len(runningTasks) :
    runningTasks[i].agentId = runningTasks[j].agentId => i = j

\* C19: when an execution succeeds its sub-task becomes completed, its worker
\* becomes idle with no current sub-task, and the worker's completed-task
\* counter goes up by exactly one.
C19_SuccessReleasesWorkerAndCountsOnce ==
  [][\A e \in execs :
       (e \notin execs' /\ \E ev \in emitted' :
            ev.type = "task_completed" /\ ev.taskId = e.taskId /\ ev.subTaskId = e.subTaskId)
       => /\ subStatus'[<<e.taskId, e.subTaskId>>] = "completed"
          /\ agentCurrent'[e.agentId] = None
          /\ agentCompleted'[e.agentId] = agentCompleted[e.agentId] + 1]_vars

\* Records of a pair that were resolved by auto_retry.
autoRetryResolutions(k) ==
  {i \in 1..Len(exceptions) :
     retryKey(exceptions[i]) = k /\ exceptions[i].resolution = "auto_retry"}

\* C12 as stated: for every pair the number of auto_retry resolutions never
\* exceeds maxAutoRetries, whatever recordException and respondToIntervention
\* calls were made.
C12_AutoRetryResolutionsWithinMax ==
  \A k \in EHPairs : Cardinality(autoRetryResolutions(k)) <= config.maxAutoRetries

\* C12 as amended: the retry counter of a pair never exceeds maxAutoRetries
\* and a reported failure is handled by auto_retry only when the counter was
\* below maxAutoRetries (a retry decision resets the counter).
C12_CounterWithinMaxAndAutoRetryOnlyBelow ==
  /\ \A k \in EHPairs : retryCounts[k] <= config.maxAutoRetries
  /\ \A i \in 1..Len(exceptions) :
       exceptions[i].strategy = "auto_retry"
       => exceptions[i].retryCountThen < config.maxAutoRetries

\* A failure was reported when the counter stood at maxAutoRetries.
C12_Witness ==
  \E i \in 1..Len(exceptions) :
    /\ exceptions[i].strategy \notin {None, "auto_retry"}
    /\ exceptions[i].type = "task_failure"
    /\ exceptions[i].retryCountThen = config.maxAutoRetries
    /\ Cardinality(autoRetryResolutions(retryKey(exceptions[i]))) = config.maxAutoRetries

\* C15: every status change of an ExceptionRecord follows one of the edges
\* pending-resolving, resolving-resolved, pending-escalated,
\* pending-acknowledged, acknowledged-resolving, and a resolved record never
\* changes status again.
AllowedEdges ==
  {<<"pending", "resolving">>, <<"resolving", "resolved">>, <<"pending", "escalated">>,
   <<"pending", "acknowledged">>, <<"acknowledged", "resolving">>}

C15_StatusChangesFollowEdges ==
  \A i \in 1..Len(statusTrail) :
    <<statusTrail[i].from, statusTrail[i].to>> \in AllowedEdges

\* C16: when respondToIntervention(id, decision) returns true the record is
\* resolved when the call is over, and for a retry decision the counter of the
\* pair is reset and the sub-task is in the scheduler again under its task id.
InScheduler(t, s) ==
  \/ \E i \in 1..Len(taskQueue) : taskQueue[i].taskId = t /\ taskQueue[i].subTaskId = s
  \/ \E i \in 1..Len(runningTasks) :
       runningTasks[i].taskId = t /\ runningTasks[i].subTaskId = s

C16_DecisionExecutedAndResolved ==
  [][\A id \in 1..Len(exceptions) :
       (budget'.responds < budget.responds
          /\ exceptions'[id].humanIntervention \in Decisions
          /\ exceptions'[id].humanIntervention # exceptions[id].humanIntervention)
       => /\ exceptions'[id].status = "resolved"
          /\ exceptions'[id].humanIntervention = "retry"
             => /\ retryCounts'[retryKey(exceptions[id])] = 0
                /\ InScheduler(exceptions[id].taskId, exceptions[id].subTaskId)']_vars

\* C17: with maxAutoRetries = 2, three reports in a row with severity medium
\* about one sub-task are handled by auto_retry, auto_retry and reassign; the
\* reassign gives the sub-task to another worker, and once nothing is in
\* flight any more the worker it was taken from is idle.
C17_TwoAutoRetriesThenReassign ==
  (/\ Len(exceptions) >= 3
   /\ \A i \in 1..3 : exceptions[i].severity = "medium")
  => /\ exceptions[1].strategy = "auto_retry"
     /\ exceptions[2].strategy = "auto_retry"
     /\ exceptions[3].strategy = "reassign"
     /\ (exceptions[3].resolution = "reassign" /\ Quiescent /\ ehTimers = {})
        => /\ subAssigned[retryKey(exceptions[3])] # exceptions[3].agentId
           /\ agentStatus[exceptions[3].agentId] = "idle"

\* C13: a record created by recordException without an explicit
\* requiresHumanIntervention requires human intervention exactly when its
\* severity is critical, or its severity is at or above
\* humanInterventionThreshold, or its type is validation_error or
\* resource_unavailable.
AtOrAbove(threshold) ==
  CASE threshold = "low" -> {"low", "medium", "high", "critical"}
    [] threshold = "medium" -> {"medium", "high", "critical"}
    [] threshold = "high" -> {"high", "critical"}
    [] threshold = "critical" -> {"critical"}

BySeverity(ex) ==
  CASE ex.severity = "low" -> "skip"
    [] ex.severity = "medium" -> "reassign"
    [] ex.severity \in {"high", "critical"} ->
         IF config.autoEscalationEnabled THEN "escalate" ELSE "await_human"

AutoRetryCase(ex) ==
  /\ ex.retryCountThen < config.maxAutoRetries
  /\ \/ ex.type \in {"task_failure", "agent_error"}
     \/ ex.type = "task_timeout" /\ config.autoRetryEnabled

HandledAutomatically(ex) == ~ex.requiredAtCreation /\ ex.strategy # None

C14_StrategyTable ==
  \A i \in 1..Len(exceptions) :
    HandledAutomatically(exceptions[i])
    => exceptions[i].strategy =
         IF AutoRetryCase(exceptions[i]) THEN "auto_retry" ELSE BySeverity(exceptions[i])

\* C14 as amended: as stated, except that a task_timeout reported while the
\* counter is below maxAutoRetries and auto-retry is disabled gives
\* await_human, whatever its severity.
TimeoutWithoutAutoRetry(ex) ==
  /\ ex.retryCountThen < config.maxAutoRetries
  /\ ex.type = "task_timeout"
  /\ ~config.autoRetryEnabled

C14_StrategyTableWithTimeoutCase ==
  \A i \in 1..Len(exceptions) :
    HandledAutomatically(exceptions[i])
    => exceptions[i].strategy =
         IF AutoRetryCase(exceptions[i]) THEN "auto_retry"
         ELSE IF TimeoutWithoutAutoRetry(exceptions[i]) THEN "await_human"
         ELSE BySeverity(exceptions[i])

\* A failure handled by auto_retry was followed by a medium failure of the
\* same pair with the counter at maxAutoRetries, handled by reassign.
C14_Witness ==
  /\ Len(exceptions) = 2
  /\ HandledAutomatically(exceptions[1]) /\ exceptions[1].strategy = "auto_retry"
  /\ HandledAutomatically(exceptions[2])
  /\ exceptions[2].type = "task_failure" /\ exceptions[2].severity = "medium"
  /\ exceptions[2].retryCountThen = config.maxAutoRetries
  /\ exceptions[2].strategy = "reassign"

\* C20: a call of TaskExecutor.executeTask makes at most maxRetries + 1
\* attempts; when every attempt failed it has emitted maxRetries task_retry
\* events and one task_failed event and rejects with the message of the last
\* attempt's error; it resolves only when an attempt resolved, and it awaits
\* nothing more once the attempts are used up.
LastError(o) == o.errors[Len(o.errors)]

C20_BoundedAttemptsThenTerminalFailure ==
  /\ \A c \in calls :
       /\ objOf(Cur, c).attempts <= maxRetries + 1
       /\ objOf(Cur, c).retryCount <= maxRetries
  /\ \A d \in execDone :
       /\ d.obj.attempts <= maxRetries + 1
       /\ d.outcome = "resolved" => Len(d.obj.errors) < d.obj.attempts
       /\ d.outcome = "rejected"
          => /\ d.obj.attempts = maxRetries + 1
             /\ Len(d.obj.errors) = d.obj.attempts
             /\ d.obj.retries = maxRetries
             /\ d.obj.failed = 1
             /\ d.message = [after |-> maxRetries, error |-> LastError(d.obj)]

\* A call rejected after attempts that failed with different errors.
C20_Witness ==
  \E d \in execDone :
    /\ d.outcome = "rejected"
    /\ d.obj.attempts = maxRetries + 1
    /\ d.obj.errors[1] # LastError(d.obj)

\* C24: whenever a task's status is completed or failed, the metrics that
\* aggregateResults computes for it have completedSubTasks + failedSubTasks =
\* totalSubTasks.
TerminalStatus == {"completed", "failed"}

C24_TerminalTaskMetricsAddUp ==
  \A t \in Tasks :
    taskStatus[t] \in TerminalStatus
    => LET metrics == calculateMetrics(collectSubTaskResults(Cur, t))
       IN metrics.completedSubTasks + metrics.failedSubTasks = metrics.totalSubTasks

\* C26: once a task's status is completed or failed, no later step changes
\* its status or its progress.
C26_TerminalTaskNeverChanges ==
  [][\A t \in Tasks :
       taskStatus[t] \in TerminalStatus
       => taskStatus'[t] = taskStatus[t] /\ taskProgress'[t] = taskProgress[t]]_vars

\* C30: whatever submitTask calls, completion callbacks and re-polls are
\* interleaved, a callback starts no queue entry twice, and an entry it
\* started has been taken out of the queue.
SameEntry(x, y) == x.taskId = y.taskId /\ x.subTaskId = y.subTaskId

C30_EntryStartedOnceAndDequeued ==
  /\ \A i, j \in 1..Len(dispatched) :
       SameEntry(dispatched[i], dispatched[j]) => i = j
  /\ \A i \in 1..Len(dispatched), q \in 1..Len(taskQueue) :
       ~SameEntry(dispatched[i], taskQueue[q])

\* A re-poll started an entry while another entry stays queued.
C30_Witness ==
  /\ Len(dispatched) >= 1
  /\ Len(taskQueue) >= 1
  /\ \E i \in 1..Len(runningTasks) : SameEntry(runningTasks[i], dispatched[1])

\* C27: after a sub-task was aborted by an abort decision of the
\* ExceptionHandler (and did not complete), its result field holds an error
\* string.
ErrorStrings == ErrorMessages \cup {"Skipped due to error"}

C27_AbortedSubtaskHasErrorResult ==
  \A i \in 1..Len(exceptions) :
    (/\ exceptions[i].resolution = "abort"
     /\ retryKey(exceptions[i]) \in Keys
     /\ subStatus[retryKey(exceptions[i])] # "completed")
    => subResult[retryKey(exceptions[i])] \in ErrorStrings

\* C28: when human intervention has been requested for an exception,
\* notification messages about its task have been sent to min(2, n) workers
\* other than the failed one, n being the number of such workers.
C28_NotifiesUpToTwoOtherWorkers ==
  \A i \in 1..Len(exceptions) :
    LET ex == exceptions[i]
        notified == {messages[n].toAgentId : n \in {j \in 1..Len(messages) :
                       /\ messages[j].type = "notification"
                       /\ messages[j].taskId = ex.taskId
                       /\ messages[j].toAgentId # ex.agentId}}
    IN ex.humanIntervention # None
       => Cardinality(notified) = Min(2, Cardinality(team \ {ex.agentId}))

\* C21: when a message that requires a response has been delivered with
\* non-empty output and the reply timer has run, exactly one automatic answer
\* to it exists: from the addressee to the sender, with the same task id, in
\* the session of the question, and itself answered by no automatic reply.
SessionOf(id) == CHOOSE sessionId \in 1..Len(sessions) : InSeq(id, sessions[sessionId].messages)

autoAnswers(id) ==
  {a \in 1..Len(messages) : messages[a].auto /\ messages[a].replyOf = id}

AnswerMirrors(a, id) ==
  /\ messages[a].type = "answer"
  /\ messages[a].fromAgentId = messages[id].toAgentId
  /\ messages[a].toAgentId = messages[id].fromAgentId
  /\ messages[a].taskId = messages[id].taskId
  /\ ~messages[a].requiresResponse
  /\ a \notin replyTimers
  /\ autoAnswers(a) = {}

Answered(id) ==
  /\ messages[id].requiresResponse
  /\ messages[id].delivered = "output"
  /\ id \notin replyTimers

C21_ExactlyOneAnswerInSameSession ==
  \A id \in 1..Len(messages) :
    Answered(id)
    => /\ Cardinality(autoAnswers(id)) = 1
       /\ \A a \in autoAnswers(id) :
            AnswerMirrors(a, id) /\ SessionOf(a) = SessionOf(id)

\* C21 as amended: as stated, except that the answer is in the session of
\* the question unless that session has been closed.
C21_ExactlyOneAnswerSameSessionUnlessClosed ==
  \A id \in 1..Len(messages) :
    Answered(id)
    => /\ Cardinality(autoAnswers(id)) = 1
       /\ \A a \in autoAnswers(id) :
            /\ AnswerMirrors(a, id)
            /\ \/ SessionOf(a) = SessionOf(id)
               \/ sessions[SessionOf(id)].status = "closed"

\* A question was answered automatically in its own session, and the answer
\* was delivered with output of its own.
C21_Witness ==
  \E id \in 1..Len(messages), a \in 1..Len(messages) :
    /\ Answered(id)
    /\ a \in autoAnswers(id)
    /\ SessionOf(a) = SessionOf(id)
    /\ messages[a].delivered = "output"

\* C22: a sendMessage call appends its message to an active session of the
\* two workers for the message's task when there is one and creates a session
\* only when there is none; among the sessions sendMessage created there is
\* at most one active session for a pair of workers and a task id.
Candidates(m) ==
  {sessionId \in 1..Len(sessions) :
     /\ sessions[sessionId].live
     /\ sessions[sessionId].status = "active"
     /\ {m.fromAgentId, m.toAgentId} \subseteq sessions[sessionId].participantIds
     /\ (m.taskId = None \/ sessions[sessionId].taskId = m.taskId)}

OneActivePerPairAndTask ==
  \A s1, s2 \in 1..Len(sessions) :
    (/\ sessions[s1].bySend /\ sessions[s2].bySend
     /\ sessions[s1].status = "active" /\ sessions[s2].status = "active"
     /\ sessions[s1].participantIds = sessions[s2].participantIds
     /\ sessions[s1].taskId = sessions[s2].taskId)
    => s1 = s2

C22_SendJoinsActiveSessionOrCreatesOne ==
  [][/\ Len(messages') = Len(messages) + 1
        => LET id == Len(messages')
               target == CHOOSE sessionId \in 1..Len(sessions') :
                           InSeq(id, sessions'[sessionId].messages)
           IN IF Candidates(messages'[id]) # {}
              THEN target \in Candidates(messages'[id]) /\ Len(sessions') = Len(sessions)
              ELSE target = Len(sessions) + 1 /\ Len(sessions') = Len(sessions) + 1
     /\ OneActivePerPairAndTask']_vars

\* sendMessage created a session for the task although a session without a
\* task was active, and a later message joined one of the two.
C22_Witness ==
  \E s1, s2 \in 1..Len(sessions) :
    /\ s1 # s2
    /\ sessions[s1].bySend /\ sessions[s2].bySend
    /\ sessions[s1].status = "active" /\ sessions[s2].status = "active"
    /\ sessions[s1].participantIds = sessions[s2].participantIds
    /\ Len(sessions[s2].messages) >= 2

\* C23: a closed session stays closed, is in no participant's session index,
\* holds exactly the messages it held when it was closed, and the record
\* saved for it holds the same messages.
ClosedSessionFrozen ==
  \A sessionId \in 1..Len(sessions) :
    sessions[sessionId].status = "closed"
    => /\ \A a \in Agents : ~InSeq(sessionId, agentConversations[a])
       /\ Len(sessions[sessionId].messages) = sessions[sessionId].closedLen
       /\ \A r \in records :
            r.sessionId = sessionId => r.messages = sessions[sessionId].messages

C23_ClosedSessionGetsNoMessage ==
  [][/\ ClosedSessionFrozen'
     /\ \A sessionId \in 1..Len(sessions) :
          sessions[sessionId].status = "closed"
          => /\ sessions'[sessionId].status = "closed"
             /\ sessions'[sessionId].messages = sessions[sessionId].messages]_vars

\* A session with messages was closed and saved, and a later message between
\* the same workers is in a younger session.
C23_Witness ==
  \E s1, s2 \in 1..Len(sessions) :
    /\ s1 < s2
    /\ sessions[s1].status = "closed"
    /\ \E r \in records : r.sessionId = s1 /\ Len(r.messages) >= 1
    /\ sessions[s2].participantIds = sessions[s1].participantIds
    /\ Len(sessions[s2].messages) >= 1

\* C29: a message sent with requiresResponse is among the pending responses
\* of its addressee, and counted in the overview, exactly while no reply to
\* it (replyMessage or automatic reply) has been sent.
C29_PendingExactlyWhileUnanswered ==
  /\ \A id \in 1..Len(messages) :
       messages[id].requiresResponse
       => (id \in getPendingResponses(Cur, messages[id].toAgentId)
           <=> \A r \in 1..Len(messages) : messages[r].replyOf # id)
  /\ pendingResponses(Cur) =
       Cardinality({id \in 1..Len(messages) :
                      /\ messages[id].requiresResponse
                      /\ \A r \in 1..Len(messages) : messages[r].replyOf # id})

\* C25: when a call of aggregateResults replaces a cached result that was
\* built from the same sub-task results, the Markdown, JSON and HTML exports
\* of the new result are those of the replaced one, and the cache holds the
\* new result.
resultOf(t) == CHOOSE r \in aggregatedResults : r.taskId = t

CacheHoldsNewResult(old) ==
  /\ Cardinality({r \in aggregatedResults : r.taskId = old.taskId}) = 1
  /\ resultOf(old.taskId).completedAt = clock

C33_IdleMatchingElseMostCompleted ==
  \A n \in 1..Len(enqueued) :
    LET e == enqueued[n]
        idle == {a \in team : e.agentStatus[a] = "idle"}
        matching == {a \in idle : hasRequiredSkills(a, requiredSkills(e.key))}
    IN (e.via = "submit" /\ e.agentId # None)
       => /\ e.agentId \in idle
          /\ matching # {} => e.agentId \in matching
          /\ matching = {}
             => \A b \in idle : e.agentCompleted[b] <= e.agentCompleted[e.agentId]

\* C33 as amended: if no idle worker matches, the chosen one is the first
\* idle worker in the order of the team.
C33_IdleMatchingElseFirstIdle ==
  \A n \in 1..Len(enqueued) :
    LET e == enqueued[n]
        idle == {a \in team : e.agentStatus[a] = "idle"}
        matching == {a \in idle : hasRequiredSkills(a, requiredSkills(e.key))}
    IN (e.via = "submit" /\ e.agentId # None)
       => /\ e.agentId \in idle
          /\ matching # {} => e.agentId \in matching
          /\ matching = {}
             => \E i \in 1..Len(AgentSeq) :
                  /\ AgentSeq[i] = e.agentId
                  /\ \A j \in 1..(i - 1) : AgentSeq[j] \notin idle

\* No idle worker matched and the first idle one was chosen although another
\* idle worker had completed more tasks.
C33_Witness ==
  \E n \in 1..Len(enqueued) :
    /\ enqueued[n].via = "submit"
    /\ enqueued[n].agentId # None
    /\ \A a \in team : enqueued[n].agentStatus[a] = "idle"
                        => ~hasRequiredSkills(a, requiredSkills(enqueued[n].key))
    /\ \E b \in team :
         /\ enqueued[n].agentStatus[b] = "idle"
         /\ enqueued[n].agentCompleted[b] > enqueued[n].agentCompleted[enqueued[n].agentId]

\* C34: the callback that resolves a record with action auto_retry has
\* enqueued the failed sub-task under the id of its task, and has enqueued
\* no sub-task of that task that was completed.
C34_AutoRetryQueuesUnderOwningTask ==
  \A n \in 1..Len(statusTrail) :
    LET ex == exceptions[statusTrail[n].id]
    IN (statusTrail[n].to = "resolved" /\ ex.resolution = "auto_retry"
        /\ ex.subTaskId # None)
       => /\ \E m \in 1..Len(enqueued) :
               enqueued[m].taskId = ex.taskId /\ enqueued[m].subTaskId = ex.subTaskId
          /\ \A m \in 1..Len(enqueued) :
               enqueued[m].subTaskId = ex.subTaskId \/ enqueued[m].unmet

\* C35: the events of one executeTask call are ordered: the first is
\* task_start, task_stream and task_progress follow a task_start of the same
\* attempt, no event follows a terminal event (task_complete or task_failed),
\* and a settled call ends with a terminal event; also when abortTask hits
\* mid-stream.  The execution objects are those in executeStates, those
\* replaced there that a call still works on, and those of settled calls.
C35_EventsOrderedOneTerminalLast ==
  LET terminal == {"task_complete", "task_failed"}
      inner == {"task_stream", "task_progress"}
      objects == {executeStates[k] : k \in Keys} \cup {c.obj : c \in calls}
                   \cup {d.obj : d \in execDone}
      ordered(ev) ==
        /\ ev # <<>> => ev[1] = "task_start"
        /\ \A i \in 1..(Len(ev) - 1) : ev[i] \notin terminal
        /\ \A i \in DOMAIN ev :
             ev[i] \in inner =>
               \E j \in 1..(i - 1) :
                 /\ ev[j] = "task_start"
                 /\ \A m \in (j + 1)..(i - 1) : ev[m] \in inner
  IN /\ \A o \in objects : ordered(o.events)
     /\ \A d \in execDone : d.obj.events # <<>> /\ d.obj.events[Len(d.obj.events)] \in terminal

\* C36: a failing sub-task is re-enqueued only while fewer than retryAttempts
\* retries were made; the failure after that (the task_failed event) leaves
\* the sub-task failed with the error text as its result and without a running
\* entry, the queue is processed again (no entry that can be dispatched is
\* left while there is capacity), and the task is terminal once every one of
\* its sub-tasks is completed or failed.
C36_BoundedRetriesThenFailedAndReleased ==
  [][/\ \A i \in DOMAIN enqueued' :
          enqueued'[i].via = "retry" => enqueued'[i].retryCount < retryAttempts
     /\ \A tm \in retryTimers' : tm.retryCount < retryAttempts
     /\ \A ev \in emitted' :
          ev.type = "task_failed" =>
            LET k == <<ev.taskId, ev.subTaskId>>
                errorText == IF timedOut' # {} THEN "Task timeout" ELSE "Worker error"
            IN /\ taskRetryCount[k] = retryAttempts
               /\ subStatus'[k] = "failed"
               /\ subResult'[k] = errorText
               /\ \A i \in DOMAIN runningTasks' :
                    <<runningTasks'[i].taskId, runningTasks'[i].subTaskId>> # k
               /\ ~(/\ Len(runningTasks') < maxConcurrency
                    /\ \E i \in DOMAIN taskQueue' :
                         /\ taskQueue'[i].agentId # None
                         /\ taskQueue'[i].taskId \in Tasks
                         /\ <<taskQueue'[i].taskId, taskQueue'[i].subTaskId>> \in Keys
                         /\ \A d \in deps[<<taskQueue'[i].taskId, taskQueue'[i].subTaskId>>] :
                              subStatus'[<<taskQueue'[i].taskId, d>>] = "completed")
               /\ (\A k2 \in KeysOf(k[1]) : subStatus'[k2] \in {"completed", "failed"})
                    => taskStatus'[k[1]] \in {"completed", "failed"}]_vars

\* C37: a (task, sub-task) pair never has more than one entry in the queue
\* and the running set taken together.
C37_OneEntryPerPair ==
  \A t \in Tasks \cup {"undefined"}, s \in {k[2] : k \in Keys} :
    Cardinality({i \in DOMAIN taskQueue :
                   taskQueue[i].taskId = t /\ taskQueue[i].subTaskId = s})
    + Cardinality({i \in DOMAIN runningTasks :
                     runningTasks[i].taskId = t /\ runningTasks[i].subTaskId = s}) <= 1

\* C38: a callback that dispatches entries of a sub-task calls the worker
\* (agentManager.sendMessage) for that sub-task once per dispatch: the run of
\* the Scheduler and the run of the TaskExecutor that task_started triggers
\* do not both call it.
C38_OneWorkerCallPerDispatch ==
  [][\A k \in Keys :
       LET dispatches == {i \in DOMAIN dispatched' :
                            <<dispatched'[i].taskId, dispatched'[i].subTaskId>> = k}
           workerCalls == {i \in DOMAIN invoked' :
                             <<invoked'[i].taskId, invoked'[i].subTaskId>> = k}
       IN dispatches # {} => Cardinality(workerCalls) = Cardinality(dispatches)]_vars

(***************************************************************************)
(* Messages sent by a worker that the Scheduler has dispatched.            *)
(***************************************************************************)
InitBusy ==
  /\ InitStores
  /\ deps \in Plans
  /\ team = Agents
  /\ config = DefaultConfig
  /\ budget = [submits |-> 1, failures |-> 1, controls |-> 0, sends |-> BusyMaxSends]

NextBusy ==
  \/ SubmitTask("T1")
  \/ \E e \in execs : Complete(e)
  \/ \E e \in execs : Fail(e, "Worker error")
  \/ \E tm \in retryTimers : RetryTimer(tm)
  \/ PollTimer
  \/ \E fromAgentId \in {"A1", "A2"} : SendMessage(fromAgentId, "A3", "T1", FALSE)
  \/ \E id \in deliveries : DeliveryDone(id, "answer text")
  \/ \E id \in deliveries : DeliveryFails(id)

SpecBusy == InitBusy /\ [][NextBusy]_vars

\* C39: the worker of a running entry never has status idle, in particular
\* not after the delivery of a message it sent has ended (done or failed).
C39_RunningWorkerNeverIdle ==
  \A i \in DOMAIN runningTasks : agentStatus[runningTasks[i].agentId] # "idle"

\* C40: a respondToIntervention call changes only a record whose ticket is
\* open (not yet answered) and which is not resolved; a call that changes no
\* record (unknown id, no ticket, answered or resolved before) changes
\* neither the retry counters nor the scheduler.
C40_TicketAnsweredAtMostOnce ==
  [][budget'.responds < budget.responds =>
       /\ \A id \in 1..Len(exceptions) :
            exceptions'[id] # exceptions[id] =>
              /\ exceptions[id].humanIntervention = "pending"
              /\ exceptions[id].status # "resolved"
       /\ exceptions' = exceptions =>
            /\ retryCounts' = retryCounts
            /\ taskQueue' = taskQueue
            /\ runningTasks' = runningTasks]_vars

====
